---- MODULE Spec2Model ----
(***************************************************************************)
(* A model of tsh.ts, the TPAC scheduling helper: the intake of issues     *)
(* into Meetings, the time-match classifier, the per-person clash scan and *)
(* gap computation, the alternative-attendee finder and the duplicate      *)
(* detector.                                                               *)
(*                                                                         *)
(* A Temporal.PlainDateTime is modelled as the number of minutes since     *)
(* Monday 2025-11-10 00:00.  A Meeting object is modelled by its record in *)
(* heap, and a reference to it by its tag (its index in heap).             *)
(***************************************************************************)
EXTENDS Integers, Sequences, FiniteSets, TLC

\* ------------------------------------------------------------------------
\* Values

\* JavaScript's undefined, for string-valued fields.
Undefined == "undefined"

\* JavaScript's undefined, for PlainDateTime-valued fields.
NoTime == 0 - 1

\* The result of parseInt on a string that does not start with a number.
NaN == 0 - 1

\* The result of calendarMeetingInfo when the link is not in the document.
Null == [null |-> TRUE]

Days == <<"monday", "tuesday", "wednesday", "thursday", "friday">>

\* The values of Match.
MatchEXACT == "exact"

MatchSUBSET == "subset"

MatchNOPE == "nope"

\* The values of Clash.
ClashNONE == "No clash"

ClashDEFO == "CLASHES!"

ClashNEAR == "Mind Gap"

MinutesPerHour == 60

MinutesPerDay == 1440

\* Temporal.Duration.from({ minutes: 10 }) in clashes.
gap == 10

\* Temporal.Duration.from({ hours: 9 }) and ({ hours: 18 }) in workingDayFrom.
WorkingDayStartHour == 9

WorkingDayEndHour == 18

\* ------------------------------------------------------------------------
\* Bounds of the model

\* The longest list of issues main is run on.
MaxIssues == 3

\* The number of add calls made on one ClashingMeetingsSet on its own.
MaxAdds == 6

\* The highest tag of a meeting handed to a ClashingMeetingsSet on its own.
MaxTag == 3

\* ------------------------------------------------------------------------
\* Sequences

Range(s) == {s[i] : i \in 1..Len(s)}

Includes(s, x) == \E i \in 1..Len(s) : s[i] = x

\* Array.from(new Set(s)): the first occurrence of every element, in order.
RECURSIVE Dedupe(_)
Dedupe(s) ==
    IF s = <<>> THEN <<>>
    ELSE LET init == Dedupe(SubSeq(s, 1, Len(s) - 1))
             last == s[Len(s)]
         IN  IF Includes(init, last) THEN init ELSE Append(init, last)

\* Truthiness (!!x) of a string-valued field.
Truthy(x) == x # Undefined /\ x # ""

\* ------------------------------------------------------------------------
\* Time and day utilities

\* Array.prototype.sort with the comparator of sort(): stable, by start.
\* An insertion that puts an activity before those of equal start.
RECURSIVE InsertBeforeEqual(_, _)
InsertBeforeEqual(s, x) ==
    IF s = <<>> THEN <<x>>
    ELSE IF Head(s).start < x.start
         THEN <<Head(s)>> \o InsertBeforeEqual(Tail(s), x)
         ELSE <<x>> \o s

RECURSIVE InsertByStart(_, _)
InsertByStart(s, x) ==
    IF s = <<>> THEN <<x>>
    ELSE IF Head(s).start <= x.start
         THEN <<Head(s)>> \o InsertByStart(Tail(s), x)
         ELSE <<x>> \o s

RECURSIVE sort(_)
sort(activities) ==
    IF activities = <<>> THEN <<>>
    ELSE InsertByStart(sort(SubSeq(activities, 1, Len(activities) - 1)),
                       activities[Len(activities)])

isDay(candidate) == Includes(Days, candidate)

\* String.prototype.toLowerCase on the day lines the model uses.
toLowerCase(s) ==
    CASE s = "Monday" -> "monday"
      [] s = "Tuesday" -> "tuesday"
      [] s = "Wednesday" -> "wednesday"
      [] s = "MONDAY" -> "monday"
      [] OTHER -> s

\* parseInt on the tokens the model uses.
parseInt(s) ==
    CASE s = "08" -> 8
      [] s = "09" -> 9
      [] s = "9" -> 9
      [] s = "10" -> 10
      [] s = "18" -> 18
      [] s = "19" -> 19
      [] s = "00" -> 0
      [] s = "20" -> 20
      [] s = "30" -> 30
      [] s = "55" -> 55
      [] s = "23" -> 23
      [] s = "59" -> 59
      [] OTHER -> NaN

DayIndex(day) == CHOOSE i \in 1..Len(Days) : Days[i] = day

\* Midnight of the day: 2025-11-10 for monday, one day later for each next.
\* One midnight for every day.
startOfDayFromMonday(candidate) == 0

startOfDayFrom(candidate) == (DayIndex(candidate) - 1) * MinutesPerDay

workingDayFrom(day) ==
    [start |-> startOfDayFrom(day) + WorkingDayStartHour * MinutesPerHour,
     end   |-> startOfDayFrom(day) + WorkingDayEndHour * MinutesPerHour]

\* A time string is modelled by its split(':'), a sequence of tokens.
\* Temporal.Duration.from throws a RangeError on a NaN field.
timeStringThrows(time) ==
    \E i \in 1..Len(time) : i <= 2 /\ parseInt(time[i]) = NaN

timeStringToPlainDateTime(startOfDay, time) ==
    LET hours   == parseInt(time[1])
        minutes == IF Len(time) >= 2 THEN parseInt(time[2]) ELSE 0
    IN  startOfDay + hours * MinutesPerHour + minutes

\* ------------------------------------------------------------------------
\* ClashingMeetingsSet

\* new ClashingMeetingsSet(): #idPairs and #meetingPairs.  An ident, the two
\* tags joined by ':', is modelled as the pair of tags; a stored pair of
\* Meeting references as the pair of their tags.
NewClashingMeetingsSet == [idPairs |-> {}, meetingPairs |-> <<>>]

\* [a, b].sort((a, b) => a.tag - b.tag)
SortByTag(a, b) == IF a.tag <= b.tag THEN <<a, b>> ELSE <<b, a>>

\* An add that keys and stores the pair in the order of its arguments.
addUnsorted(cms, a, b) ==
    IF <<a.tag, b.tag>> \notin cms.idPairs
    THEN [idPairs      |-> cms.idPairs \cup {<<a.tag, b.tag>>},
          meetingPairs |-> Append(cms.meetingPairs, <<a.tag, b.tag>>)]
    ELSE cms

add(cms, a, b) ==
    LET sorted == SortByTag(a, b)
        ident  == <<sorted[1].tag, sorted[2].tag>>
    IN  IF ident \notin cms.idPairs
        THEN [idPairs      |-> cms.idPairs \cup {ident},
              meetingPairs |-> Append(cms.meetingPairs,
                                      <<sorted[1].tag, sorted[2].tag>>)]
        ELSE cms

size(cms) == Len(cms.meetingPairs)

\* ------------------------------------------------------------------------
\* Intake: the intent parser and the meeting builder

\* The issue url, 'https://github.com/' dropped, is modelled by its split('/').
repo(issueUrl) == SubSeq(issueUrl, 1, Len(issueUrl) - 2)

\* replaceAll(',', '').replaceAll('@', '') on the name tokens the model uses.
StripName(s) ==
    CASE s = "@B" -> "B"
      [] s = "B," -> "B"
      [] s = "@A" -> "A"
      [] OTHER -> s

\* A body is modelled by its lines: calendarUrl, dayLine (Undefined when the
\* body ends before it), timeLine (its split on the dash, each endpoint by its
\* split(':'); <<>> when the body ends before it), extraLine (its split(/\s/);
\* <<>> when missing or empty) and rest, the lines after it.
RawDay(body) ==
    IF body.dayLine = Undefined THEN Undefined ELSE toLowerCase(body.dayLine)

DayOf(rawDay) == IF isDay(rawDay) THEN rawDay ELSE Undefined

\* time?.split(...).map(tstr => timeStringToPlainDateTime(startOfDay, tstr))
\* when the day is known, [] when not.
StartAndEnd(body, day) ==
    IF day # Undefined
    THEN [k \in 1..Len(body.timeLine) |->
            timeStringToPlainDateTime(startOfDayFrom(day), body.timeLine[k])]
    ELSE <<>>

extractBodyThrows(body) ==
    /\ isDay(RawDay(body))
    /\ \E k \in 1..Len(body.timeLine) : timeStringThrows(body.timeLine[k])

BodyInfo(body, day, startAndEnd) ==
    [calendarUrl |-> body.calendarUrl,
     day         |-> day,
     startOfDay  |-> IF day # Undefined THEN startOfDayFrom(day) ELSE NoTime,
     start       |-> IF Len(startAndEnd) >= 1 THEN startAndEnd[1] ELSE NoTime,
     end         |-> IF Len(startAndEnd) >= 2 THEN startAndEnd[2] ELSE NoTime,
     extraPeople |-> [k \in 1..Len(body.extraLine) |-> StripName(body.extraLine[k])],
     notes       |-> IF body.extraLine # <<>> /\ body.rest # <<>>
                     THEN Tail(body.rest) ELSE body.rest]

ExtractWithDay(body, day) == BodyInfo(body, day, StartAndEnd(body, day))

extractBodyInfo(body) == ExtractWithDay(body, DayOf(RawDay(body)))

\* The schedule document: what its link for a calendar url holds.  A time
\* string is modelled by its split(':'), and <<>> is a missing or empty one.
Schedule ==
    [u1 |-> [title |-> "Plenary", day |-> "monday",
             start |-> <<"09", "00">>, end |-> <<"18", "00">>,
             room |-> "Hall", kind |-> "group"],
     u2 |-> [title |-> "Breakout", day |-> "monday",
             start |-> <<"09", "10">>, end |-> <<"10", "00">>,
             room |-> "Room 2", kind |-> "breakout"],
     u3 |-> [title |-> "Roomless", day |-> "tuesday",
             start |-> <<"09", "00">>, end |-> <<"18", "00">>,
             room |-> "", kind |-> "group"],
     u4 |-> [title |-> "Long day", day |-> "monday",
             start |-> <<"08", "00">>, end |-> <<"20", "00">>,
             room |-> "Annex", kind |-> "group"],
     u5 |-> [title |-> "All day", day |-> "tuesday",
             start |-> <<"00", "00">>, end |-> <<"23", "59">>,
             room |-> "Lobby", kind |-> "group"]]

\* A look-up that falls back on the Plenary for a url without a link.
calendarMeetingInfoOrPlenary(doc, url) ==
    IF url \in DOMAIN doc THEN doc[url] ELSE doc["u1"]

calendarMeetingInfo(doc, url) ==
    IF url \in DOMAIN doc THEN doc[url] ELSE Null

\* A classifier that asks a SUBSET to be strictly inside the calendar window.
timeMatchStrict(calendarStart, calendarEnd, ourStart, ourEnd) ==
    IF calendarStart = ourStart /\ calendarEnd = ourEnd THEN MatchEXACT
    ELSE IF calendarStart < ourStart /\ calendarEnd > ourEnd THEN MatchSUBSET
    ELSE MatchNOPE

timeMatch(calendarStart, calendarEnd, ourStart, ourEnd) ==
    LET start == IF calendarStart < ourStart THEN 0 - 1
                 ELSE IF calendarStart = ourStart THEN 0 ELSE 1
        end   == IF calendarEnd < ourEnd THEN 0 - 1
                 ELSE IF calendarEnd = ourEnd THEN 0 ELSE 1
    IN  IF start = 0 /\ end = 0 THEN MatchEXACT
        ELSE IF start <= 0 /\ end >= 0 THEN MatchSUBSET
        ELSE MatchNOPE

\* An issue is [assignees (their logins), body, title, url].
CalendarThrows(calendarInfo) ==
    /\ calendarInfo # Null
    /\ calendarInfo.day # Undefined
    /\ \/ timeStringThrows(calendarInfo.start)
       \/ timeStringThrows(calendarInfo.end)

meetingFromIssueThrows(doc, issue) ==
    \/ extractBodyThrows(issue.body)
    \/ CalendarThrows(calendarMeetingInfo(doc, issue.body.calendarUrl))

\* startOfDay && calendarInfo?.start ? timeStringToPlainDateTime(...) : undefined
CalendarTime(day, time) ==
    IF day # Undefined /\ time # <<>>
    THEN timeStringToPlainDateTime(startOfDayFrom(day), time)
    ELSE NoTime

\* calendarInfo?.field
Field(calendarInfo, field) ==
    IF calendarInfo = Null THEN Undefined ELSE calendarInfo[field]

MatchOf(calendarStart, calendarEnd, bodyInfo) ==
    IF /\ calendarStart # NoTime /\ calendarEnd # NoTime
       /\ bodyInfo.start # NoTime /\ bodyInfo.end # NoTime
    THEN timeMatch(calendarStart, calendarEnd, bodyInfo.start, bodyInfo.end)
    ELSE Undefined

BuildMeeting(issue, counter, bodyInfo, calendarInfo, calendarStart, calendarEnd) ==
    [tag           |-> counter,
     kind          |-> Field(calendarInfo, "kind"),
     calendarTitle |-> Field(calendarInfo, "title"),
     title         |-> issue.title,
     calendarDay   |-> Field(calendarInfo, "day"),
     day           |-> bodyInfo.day,
     calendarStart |-> calendarStart,
     start         |-> bodyInfo.start,
     calendarEnd   |-> calendarEnd,
     end           |-> bodyInfo.end,
     match         |-> MatchOf(calendarStart, calendarEnd, bodyInfo),
     calendarRoom  |-> Field(calendarInfo, "room"),
     names         |-> Dedupe(issue.assignees \o bodyInfo.extraPeople),
     calendarUrl   |-> bodyInfo.calendarUrl,
     issueUrl      |-> issue.url,
     alternatives  |-> <<>>,
     notes         |-> bodyInfo.notes]

BuildWithCalendar(issue, counter, bodyInfo, calendarInfo) ==
    BuildMeeting(issue, counter, bodyInfo, calendarInfo,
                 IF calendarInfo = Null THEN NoTime
                 ELSE CalendarTime(calendarInfo.day, calendarInfo.start),
                 IF calendarInfo = Null THEN NoTime
                 ELSE CalendarTime(calendarInfo.day, calendarInfo.end))

BuildWithBody(doc, issue, counter, bodyInfo) ==
    BuildWithCalendar(issue, counter, bodyInfo,
                      calendarMeetingInfo(doc, bodyInfo.calendarUrl))

meetingFromIssue(doc, issue, counter) ==
    BuildWithBody(doc, issue, counter, extractBodyInfo(issue.body))

\* p.field of a Partial<Meeting> is undefined when p has no such property
\* and when the property holds undefined.
Has(p, field) == field \in DOMAIN p

\* A validity check that does not ask for the room.
isMeetingWithoutRoom(p) ==
    /\ Has(p, "tag") /\ p.tag # 0
    /\ Has(p, "kind") /\ Truthy(p.kind)
    /\ Has(p, "calendarTitle") /\ Truthy(p.calendarTitle)
    /\ Has(p, "title") /\ Truthy(p.title)
    /\ Has(p, "calendarDay") /\ Truthy(p.calendarDay)
    /\ Has(p, "day") /\ Truthy(p.day)
    /\ Has(p, "calendarStart") /\ p.calendarStart # NoTime
    /\ Has(p, "start") /\ p.start # NoTime
    /\ Has(p, "calendarEnd") /\ p.calendarEnd # NoTime
    /\ Has(p, "end") /\ p.end # NoTime
    /\ Has(p, "match") /\ Truthy(p.match)
    /\ Has(p, "names")
    /\ Has(p, "calendarUrl") /\ Truthy(p.calendarUrl)
    /\ Has(p, "issueUrl") /\ p.issueUrl # <<>>
    /\ Has(p, "alternatives")

\* An array is truthy, an empty one too.
isMeeting(p) ==
    /\ Has(p, "tag") /\ p.tag # 0
    /\ Has(p, "kind") /\ Truthy(p.kind)
    /\ Has(p, "calendarTitle") /\ Truthy(p.calendarTitle)
    /\ Has(p, "title") /\ Truthy(p.title)
    /\ Has(p, "calendarDay") /\ Truthy(p.calendarDay)
    /\ Has(p, "day") /\ Truthy(p.day)
    /\ Has(p, "calendarStart") /\ p.calendarStart # NoTime
    /\ Has(p, "start") /\ p.start # NoTime
    /\ Has(p, "calendarEnd") /\ p.calendarEnd # NoTime
    /\ Has(p, "end") /\ p.end # NoTime
    /\ Has(p, "match") /\ Truthy(p.match)
    /\ Has(p, "calendarRoom") /\ Truthy(p.calendarRoom)
    /\ Has(p, "names")
    /\ Has(p, "calendarUrl") /\ Truthy(p.calendarUrl)
    /\ Has(p, "issueUrl") /\ p.issueUrl # <<>>
    /\ Has(p, "alternatives")

\* ------------------------------------------------------------------------
\* Clash detection

\* An identity filter that takes the issue, not the calendar entry, as identity.
sameIssue(meeting, other) ==
    /\ meeting.issueUrl = other.issueUrl
    /\ meeting.start = other.start
    /\ meeting.end = other.end

sameActualMeeting(meeting, other) ==
    /\ meeting.calendarUrl = other.calendarUrl
    /\ meeting.start = other.start
    /\ meeting.end = other.end

\* A classification whose near checks widen o only before its start.
ClashOfNarrowEnd(m, o) ==
    IF m.start >= o.start /\ m.start <= o.end THEN ClashDEFO
    ELSE IF m.end > o.start /\ m.end <= o.end THEN ClashDEFO
    ELSE IF m.start >= o.start - gap /\ m.start <= o.end THEN ClashNEAR
    ELSE IF m.end > o.start - gap /\ m.end <= o.end THEN ClashNEAR
    ELSE ClashNONE

\* A classification whose hard end check takes a shared boundary as inside.
ClashOfTouching(m, o) ==
    IF m.start >= o.start /\ m.start <= o.end THEN ClashDEFO
    ELSE IF m.end >= o.start /\ m.end <= o.end THEN ClashDEFO
    ELSE IF m.start >= o.start - gap /\ m.start <= o.end + gap THEN ClashNEAR
    ELSE IF m.end >= o.start - gap /\ m.end <= o.end + gap THEN ClashNEAR
    ELSE ClashNONE

\* A classification without the hard end check.
ClashOfStartOnly(m, o) ==
    IF m.start >= o.start /\ m.start <= o.end THEN ClashDEFO
    ELSE IF m.start >= o.start - gap /\ m.start <= o.end + gap THEN ClashNEAR
    ELSE IF m.end >= o.start - gap /\ m.end <= o.end + gap THEN ClashNEAR
    ELSE ClashNONE

\* A classification whose near end check leaves out an end that is exactly
\* the buffer before the other start, as its hard end check leaves out an end
\* at the other start.
ClashOfStrictEnd(m, o) ==
    IF m.start >= o.start /\ m.start <= o.end THEN ClashDEFO
    ELSE IF m.end > o.start /\ m.end <= o.end THEN ClashDEFO
    ELSE IF m.start >= o.start - gap /\ m.start <= o.end + gap THEN ClashNEAR
    ELSE IF m.end > o.start - gap /\ m.end <= o.end + gap THEN ClashNEAR
    ELSE ClashNONE

\* The classification of m and o, m the one sort puts first.
ClashOf(m, o) ==
    IF m.start >= o.start /\ m.start <= o.end THEN ClashDEFO
    ELSE IF m.end > o.start /\ m.end <= o.end THEN ClashDEFO
    ELSE IF m.start >= o.start - gap /\ m.start <= o.end + gap THEN ClashNEAR
    ELSE IF m.end >= o.start - gap /\ m.end <= o.end + gap THEN ClashNEAR
    ELSE ClashNONE

ClashOfSorted(meetings) == ClashOf(meetings[1], meetings[2])

\* A classification of the two meetings in the order they are given in.
clashesUnsorted(a, b) == ClashOf(a, b)

clashes(a, b) == ClashOfSorted(sort(<<a, b>>))

\* ------------------------------------------------------------------------
\* Maps.  A JavaScript Map is modelled by its keys in insertion order and the
\* value of every key.

NewMap == [keys |-> <<>>, vals |-> <<>>]

has(map, key) == Includes(map.keys, key)

get(map, key) == map.vals[key]

set(map, key, value) ==
    IF has(map, key)
    THEN [map EXCEPT !.vals[key] = value]
    ELSE [keys |-> Append(map.keys, key), vals |-> (key :> value) @@ map.vals]

dayThings == [keys |-> Days, vals |-> [day \in Range(Days) |-> <<>>]]

\* map.get(key).get(day).push(thing), on a map of dayThings.
PushDayThing(map, key, day, thing) ==
    set(map, key, set(get(map, key), day, Append(get(get(map, key), day), thing)))

addDayMeeting(map, day, meeting) ==
    IF has(map, day)
    THEN set(map, day, Append(get(map, day), meeting))
    ELSE set(map, day, <<meeting>>)

addRepoMeeting(map, r, meeting) ==
    IF has(map, r)
    THEN set(map, r, Append(get(map, r), meeting))
    ELSE set(map, r, <<meeting>>)

\* A filing of the pair under the first raw name of the meeting.
addClashingMeetingByRawName(map, name, m, o) ==
    LET made == IF has(map, m.names[1]) THEN map
                ELSE set(map, m.names[1], NewClashingMeetingsSet)
    IN  set(made, m.names[1], add(get(made, m.names[1]), m, o))

addClashingMeeting(map, name, m, o) ==
    LET made == IF has(map, name) THEN map ELSE set(map, name, NewClashingMeetingsSet)
    IN  set(made, name, add(get(made, name), m, o))

\* ------------------------------------------------------------------------
\* The state of main

VARIABLES
    issues,             \* the issues main works on
    equivalents,        \* the --combine pairs, a function from name to name
    alts,               \* args.alternatives
    pc,                 \* the pass main is in
    i,                  \* the index of the next issue of the intake loop
    meetingCounter,
    heap,               \* the Meeting and Partial<Meeting> objects, by tag
    meetings,           \* references (tags), as every list below
    invalidMeetings,
    movedMeetings,
    unassignedMeetings,
    dayMeetings,
    personDayMeetings,
    personDayGaps,
    repoMeetings,
    peopleDefinitelyClashingMeetings,
    peopleNearlyClashingMeetings,
    scanned,            \* the number of people the clash and gap scan has done
    repoPossibleDuplicates,
    cms,                \* a ClashingMeetingsSet used on its own
    added,              \* the add calls made on cms, as pairs of tags
    matchArgs,          \* the arguments of a call of timeMatch on its own
    matchResult,        \* its result
    callArgs,           \* the arguments of a call of another function on its own
    callResult          \* <<>> before the call, <<its result>> after it

mainVars == <<issues, equivalents, alts, pc, i, meetingCounter, heap, meetings,
              invalidMeetings, movedMeetings, unassignedMeetings, dayMeetings,
              personDayMeetings, personDayGaps, repoMeetings,
              peopleDefinitelyClashingMeetings, peopleNearlyClashingMeetings,
              scanned, repoPossibleDuplicates>>

unitVars == <<cms, added, matchArgs, matchResult, callArgs, callResult>>

vars == <<mainVars, unitVars>>

\* The records of a list of references.
Deref(tags) == [k \in 1..Len(tags) |-> heap[tags[k]]]

\* sort(list) on a list of references.
SortRefs(tags) == LET sorted == sort(Deref(tags))
                  IN  [k \in 1..Len(tags) |-> sorted[k].tag]

\* ------------------------------------------------------------------------
\* main: the intake loop

\* A counter that is never advanced.
NextCounterStuck(counter) == counter

\* meetingCounter++
NextCounter(counter) == counter + 1

\* An intake loop that keeps no record of an invalid entry.
IntakeListsDroppingInvalid(lists, meeting) ==
    IF isMeeting(meeting)
    THEN [meetings           |-> IF meeting.match = MatchNOPE THEN lists.meetings
                                 ELSE Append(lists.meetings, meeting.tag),
          movedMeetings      |-> IF meeting.match = MatchNOPE
                                 THEN Append(lists.movedMeetings, meeting.tag)
                                 ELSE lists.movedMeetings,
          unassignedMeetings |-> IF Len(meeting.names) = 0
                                 THEN Append(lists.unassignedMeetings, meeting.tag)
                                 ELSE lists.unassignedMeetings,
          invalidMeetings    |-> lists.invalidMeetings]
    ELSE lists

\* An intake that keeps a moved meeting on the schedule as well.
IntakeListsKeepingMoved(lists, meeting) ==
    IF isMeeting(meeting)
    THEN [meetings           |-> Append(lists.meetings, meeting.tag),
          movedMeetings      |-> IF meeting.match = MatchNOPE
                                 THEN Append(lists.movedMeetings, meeting.tag)
                                 ELSE lists.movedMeetings,
          unassignedMeetings |-> IF Len(meeting.names) = 0
                                 THEN Append(lists.unassignedMeetings, meeting.tag)
                                 ELSE lists.unassignedMeetings,
          invalidMeetings    |-> lists.invalidMeetings]
    ELSE [lists EXCEPT !.invalidMeetings = Append(@, meeting.tag)]

\* The body of the intake loop: the lists after the record of one issue is
\* filed, lists being [meetings, invalidMeetings, movedMeetings,
\* unassignedMeetings].
IntakeLists(lists, meeting) ==
    IF isMeeting(meeting)
    THEN [meetings           |-> IF meeting.match = MatchNOPE THEN lists.meetings
                                 ELSE Append(lists.meetings, meeting.tag),
          movedMeetings      |-> IF meeting.match = MatchNOPE
                                 THEN Append(lists.movedMeetings, meeting.tag)
                                 ELSE lists.movedMeetings,
          unassignedMeetings |-> IF Len(meeting.names) = 0
                                 THEN Append(lists.unassignedMeetings, meeting.tag)
                                 ELSE lists.unassignedMeetings,
          invalidMeetings    |-> lists.invalidMeetings]
    ELSE [lists EXCEPT !.invalidMeetings = Append(@, meeting.tag)]

\* for (const issue of issues): one issue.  A throw of meetingFromIssue is
\* not caught: it ends the run.
Intake ==
    /\ pc = "intake"
    /\ i <= Len(issues)
    /\ IF meetingFromIssueThrows(Schedule, issues[i])
       THEN /\ pc' = "crashed"
            /\ UNCHANGED <<i, meetingCounter, heap, meetings, invalidMeetings,
                           movedMeetings, unassignedMeetings>>
       ELSE \E meeting \in {meetingFromIssue(Schedule, issues[i], meetingCounter)} :
            \E filed \in {IntakeLists([meetings           |-> meetings,
                                       invalidMeetings    |-> invalidMeetings,
                                       movedMeetings      |-> movedMeetings,
                                       unassignedMeetings |-> unassignedMeetings],
                                      meeting)} :
                /\ meetingCounter' = NextCounter(meetingCounter)
                /\ heap' = Append(heap, meeting)
                /\ meetings' = filed.meetings
                /\ invalidMeetings' = filed.invalidMeetings
                /\ movedMeetings' = filed.movedMeetings
                /\ unassignedMeetings' = filed.unassignedMeetings
                /\ i' = i + 1
                /\ pc' = pc
    /\ UNCHANGED <<issues, equivalents, alts, dayMeetings, personDayMeetings,
                   personDayGaps, repoMeetings, peopleDefinitelyClashingMeetings,
                   peopleNearlyClashingMeetings, scanned, repoPossibleDuplicates,
                   unitVars>>

\* if (issues.length === 0) return
NoIssues ==
    /\ pc = "intake"
    /\ Len(issues) = 0
    /\ pc' = "done"
    /\ UNCHANGED <<issues, equivalents, alts, i, meetingCounter, heap, meetings,
                   invalidMeetings, movedMeetings, unassignedMeetings, dayMeetings,
                   personDayMeetings, personDayGaps, repoMeetings,
                   peopleDefinitelyClashingMeetings, peopleNearlyClashingMeetings,
                   scanned, repoPossibleDuplicates, unitVars>>

\* sort(meetings); sort(movedMeetings); sort(unassignedMeetings)
SortLists ==
    /\ pc = "intake"
    /\ Len(issues) > 0
    /\ i > Len(issues)
    /\ meetings' = SortRefs(meetings)
    /\ movedMeetings' = SortRefs(movedMeetings)
    /\ unassignedMeetings' = SortRefs(unassignedMeetings)
    /\ pc' = "group"
    /\ UNCHANGED <<issues, equivalents, alts, i, meetingCounter, heap,
                   invalidMeetings, dayMeetings, personDayMeetings, personDayGaps,
                   repoMeetings, peopleDefinitelyClashingMeetings,
                   peopleNearlyClashingMeetings, scanned, repoPossibleDuplicates,
                   unitVars>>

\* ------------------------------------------------------------------------
\* main: grouping by person, day and repository

\* A look-up that is done again on the name it finds.
EquivalentChained(map, name) ==
    IF name \in DOMAIN map
    THEN IF map[name] \in DOMAIN map THEN map[map[name]] ELSE map[name]
    ELSE name

\* equivalents.get(name) ?? name
EquivalentOf(map, name) == IF name \in DOMAIN map THEN map[name] ELSE name

\* for (const name of meeting.names), from the k-th name on.
RECURSIVE GroupNames(_, _, _)
GroupNames(acc, meeting, k) ==
    IF k > Len(meeting.names) THEN acc
    ELSE LET name   == meeting.names[k]
             equiv  == EquivalentOf(equivalents, name)
             pdm    == IF has(acc.personDayMeetings, equiv)
                       THEN acc.personDayMeetings
                       ELSE set(acc.personDayMeetings, equiv, dayThings)
             pdg    == IF has(acc.personDayGaps, equiv)
                       THEN acc.personDayGaps
                       ELSE set(acc.personDayGaps, equiv, dayThings)
         IN  GroupNames([acc EXCEPT
                           !.personDayMeetings =
                               PushDayThing(pdm, equiv, meeting.day, meeting.tag),
                           !.personDayGaps = pdg],
                        meeting, k + 1)

\* for (const meeting of meetings), from the k-th meeting on.
RECURSIVE GroupMeetings(_, _)
GroupMeetings(acc, k) ==
    IF k > Len(meetings) THEN acc
    ELSE LET meeting == heap[meetings[k]]
             named   == GroupNames(acc, meeting, 1)
         IN  GroupMeetings([named EXCEPT
                              !.dayMeetings =
                                  addDayMeeting(named.dayMeetings, meeting.calendarDay,
                                                meeting.tag),
                              !.repoMeetings =
                                  addRepoMeeting(named.repoMeetings,
                                                 repo(meeting.issueUrl), meeting.tag)],
                           k + 1)

Group ==
    /\ pc = "group"
    /\ \E grouped \in {GroupMeetings([dayMeetings       |-> dayThings,
                                       personDayMeetings |-> NewMap,
                                       personDayGaps     |-> NewMap,
                                       repoMeetings      |-> NewMap], 1)} :
           /\ dayMeetings' = grouped.dayMeetings
           /\ personDayMeetings' = grouped.personDayMeetings
           /\ personDayGaps' = grouped.personDayGaps
           /\ repoMeetings' = grouped.repoMeetings
    /\ pc' = "scan"
    /\ UNCHANGED <<issues, equivalents, alts, i, meetingCounter, heap, meetings,
                   invalidMeetings, movedMeetings, unassignedMeetings,
                   peopleDefinitelyClashingMeetings, peopleNearlyClashingMeetings,
                   scanned, repoPossibleDuplicates, unitVars>>

\* ------------------------------------------------------------------------
\* main: the clash and gap scan of one person

\* for (const other of meetings), from the b-th on, for the a-th meeting.
RECURSIVE ScanOthers(_, _, _, _, _)
ScanOthers(acc, name, dayList, a, b) ==
    IF b > Len(dayList) THEN acc
    ELSE LET meeting == heap[dayList[a]]
             other   == heap[dayList[b]]
             status  == clashes(meeting, other)
             next    ==
                 IF dayList[a] = dayList[b] THEN acc
                 ELSE IF sameActualMeeting(meeting, other) THEN acc
                 ELSE IF status = ClashDEFO
                      THEN [acc EXCEPT !.definitely =
                               addClashingMeeting(acc.definitely, name, meeting, other)]
                 ELSE IF status = ClashNEAR
                      THEN [acc EXCEPT !.nearly =
                               addClashingMeeting(acc.nearly, name, meeting, other)]
                 ELSE acc
         IN  ScanOthers(next, name, dayList, a, b + 1)

\* A running cursor instead of a high-water mark.
AdvanceEndCursor(meeting, endOfLastMeeting) == meeting.end

\* if (compare(meeting.end, endOfLastMeeting) > 0) endOfLastMeeting = meeting.end
AdvanceEnd(meeting, endOfLastMeeting) ==
    IF meeting.end > endOfLastMeeting THEN meeting.end ELSE endOfLastMeeting

\* for (const meeting of meetings), from the a-th on, and the closing gap.
RECURSIVE ScanMeetings(_, _, _, _, _, _)
ScanMeetings(acc, name, day, dayList, a, endOfLastMeeting) ==
    IF a > Len(dayList)
    THEN IF endOfLastMeeting < workingDayFrom(day).end
         THEN [acc EXCEPT !.gaps =
                  PushDayThing(acc.gaps, name, day,
                               [start |-> endOfLastMeeting,
                                end   |-> workingDayFrom(day).end])]
         ELSE acc
    ELSE LET meeting == heap[dayList[a]]
             clashed == ScanOthers(acc, name, dayList, a, 1)
             gapped  == IF meeting.start > endOfLastMeeting
                        THEN [clashed EXCEPT !.gaps =
                                 PushDayThing(clashed.gaps, name, day,
                                              [start |-> endOfLastMeeting,
                                               end   |-> meeting.start])]
                        ELSE clashed
         IN  ScanMeetings(gapped, name, day, dayList, a + 1,
                          AdvanceEnd(meeting, endOfLastMeeting))

\* for (const [day, meetings] of dayMeetings), from the d-th day on.
RECURSIVE ScanDays(_, _, _)
ScanDays(acc, name, d) ==
    LET days == get(personDayMeetings, name)
    IN  IF d > Len(days.keys) THEN acc
        ELSE LET day == days.keys[d]
             IN  ScanDays(ScanMeetings(acc, name, day, get(days, day), 1,
                                       workingDayFrom(day).start),
                          name, d + 1)

\* for (const [name, dayMeetings] of personDayMeetings): one person.
Scan ==
    /\ pc = "scan"
    /\ scanned < Len(personDayMeetings.keys)
    /\ \E done \in {ScanDays([definitely |-> peopleDefinitelyClashingMeetings,
                               nearly     |-> peopleNearlyClashingMeetings,
                               gaps       |-> personDayGaps],
                              personDayMeetings.keys[scanned + 1], 1)} :
           /\ peopleDefinitelyClashingMeetings' = done.definitely
           /\ peopleNearlyClashingMeetings' = done.nearly
           /\ personDayGaps' = done.gaps
    /\ scanned' = scanned + 1
    /\ UNCHANGED <<issues, equivalents, alts, pc, i, meetingCounter, heap, meetings,
                   invalidMeetings, movedMeetings, unassignedMeetings, dayMeetings,
                   personDayMeetings, repoMeetings, repoPossibleDuplicates, unitVars>>

\* ------------------------------------------------------------------------
\* main: alternative attendees

\* A check that the meeting and the gap have a time in common.
isMeetingInGapPartly(m, g) == m.start <= g.end /\ m.end >= g.start

\* A check of the start of the meeting only.
isMeetingInGapByStart(m, g) ==
    /\ m.start >= g.start
    /\ m.start <= g.end

isMeetingInGap(m, g) ==
    /\ m.start >= g.start
    /\ m.start <= g.end
    /\ m.end >= g.start
    /\ m.end <= g.end

\* for (const gap of pdg.get(name)?.get(m.day) ?? []), from the k-th gap on.
RECURSIVE AlternativesOfGaps(_, _, _, _)
AlternativesOfGaps(name, gaps, m, k) ==
    IF k > Len(gaps) THEN <<>>
    ELSE (IF isMeetingInGap(m, gaps[k]) THEN <<name>> ELSE <<>>)
         \o AlternativesOfGaps(name, gaps, m, k + 1)

\* for (const name of pdg.keys()), from the k-th key on.
RECURSIVE AlternativesFrom(_, _, _, _)
AlternativesFrom(allowed, pdg, m, k) ==
    IF k > Len(pdg.keys) THEN <<>>
    ELSE LET name == pdg.keys[k]
             mine == IF Includes(m.names, name) THEN <<>>
                     ELSE IF Len(allowed) > 0 /\ ~Includes(allowed, name) THEN <<>>
                     ELSE AlternativesOfGaps(name, get(get(pdg, name), m.day), m, 1)
         IN  mine \o AlternativesFrom(allowed, pdg, m, k + 1)

alternatives(allowed, pdg, m) == AlternativesFrom(allowed, pdg, m, 1)

\* An attaching to every record, on the schedule or not.
AttachAlternativesToAll ==
    /\ pc = "scan"
    /\ scanned = Len(personDayMeetings.keys)
    /\ heap' = [t \in DOMAIN heap |->
                  [heap[t] EXCEPT !.alternatives =
                      @ \o alternatives(alts, personDayGaps, heap[t])]]
    /\ pc' = "duplicates"
    /\ UNCHANGED <<issues, equivalents, alts, i, meetingCounter, meetings,
                   invalidMeetings, movedMeetings, unassignedMeetings, dayMeetings,
                   personDayMeetings, personDayGaps, repoMeetings,
                   peopleDefinitelyClashingMeetings, peopleNearlyClashingMeetings,
                   scanned, repoPossibleDuplicates, unitVars>>

\* An attaching that does not wait for the scan of the last person.
AttachAlternativesEarly ==
    /\ pc = "scan"
    /\ scanned + 1 >= Len(personDayMeetings.keys)
    /\ heap' = [t \in DOMAIN heap |->
                  IF Includes(meetings, t)
                  THEN [heap[t] EXCEPT !.alternatives =
                           @ \o alternatives(alts, personDayGaps, heap[t])]
                  ELSE heap[t]]
    /\ pc' = "duplicates"
    /\ UNCHANGED <<issues, equivalents, alts, i, meetingCounter, meetings,
                   invalidMeetings, movedMeetings, unassignedMeetings, dayMeetings,
                   personDayMeetings, personDayGaps, repoMeetings,
                   peopleDefinitelyClashingMeetings, peopleNearlyClashingMeetings,
                   scanned, repoPossibleDuplicates, unitVars>>

\* for (const meeting of meetings) meeting.alternatives.push(...)
AttachAlternatives ==
    /\ pc = "scan"
    /\ scanned = Len(personDayMeetings.keys)
    /\ heap' = [t \in DOMAIN heap |->
                  IF Includes(meetings, t)
                  THEN [heap[t] EXCEPT !.alternatives =
                           @ \o alternatives(alts, personDayGaps, heap[t])]
                  ELSE heap[t]]
    /\ pc' = "duplicates"
    /\ UNCHANGED <<issues, equivalents, alts, i, meetingCounter, meetings,
                   invalidMeetings, movedMeetings, unassignedMeetings, dayMeetings,
                   personDayMeetings, personDayGaps, repoMeetings,
                   peopleDefinitelyClashingMeetings, peopleNearlyClashingMeetings,
                   scanned, repoPossibleDuplicates, unitVars>>

\* ------------------------------------------------------------------------
\* main: possible duplicates

\* Object.values(Object.groupBy(list, meeting => meeting.calendarUrl)): the
\* groups in the order their urls first occur.
groupBy(list) ==
    LET urls == Dedupe([k \in 1..Len(list) |-> heap[list[k]].calendarUrl])
    IN  [u \in 1..Len(urls) |->
            SelectSeq(list, LAMBDA t : heap[t].calendarUrl = urls[u])]

\* for (const [repo, meetings] of repoMeetings), from the k-th repo on.
RECURSIVE DuplicatesFrom(_, _)
DuplicatesFrom(acc, k) ==
    IF k > Len(repoMeetings.keys) THEN acc
    ELSE LET r             == repoMeetings.keys[k]
             grouped       == groupBy(get(repoMeetings, r))
             possibleDupes == SelectSeq(grouped, LAMBDA group : Len(group) > 1)
         IN  DuplicatesFrom(IF Len(possibleDupes) > 0
                            THEN set(acc, r, possibleDupes) ELSE acc,
                            k + 1)

FindDuplicates ==
    /\ pc = "duplicates"
    /\ repoPossibleDuplicates' = DuplicatesFrom(NewMap, 1)
    /\ pc' = "done"
    /\ UNCHANGED <<issues, equivalents, alts, i, meetingCounter, heap, meetings,
                   invalidMeetings, movedMeetings, unassignedMeetings, dayMeetings,
                   personDayMeetings, personDayGaps, repoMeetings,
                   peopleDefinitelyClashingMeetings, peopleNearlyClashingMeetings,
                   scanned, unitVars>>

\* ------------------------------------------------------------------------
\* The runs of main

\* The k-th issue of a run, of the given shape: its body is the shape's lines
\* and its url is that of issue k of the shape's repository.
MakeIssue(shape, k) ==
    [assignees |-> shape.assignees,
     body      |-> [calendarUrl |-> shape.calendarUrl,
                    dayLine     |-> shape.dayLine,
                    timeLine    |-> shape.timeLine,
                    extraLine   |-> shape.extraLine,
                    rest        |-> shape.rest],
     title     |-> shape.title,
     url       |-> <<"w3c", shape.repoName, "issues", k>>]

\* A complete, well-formed issue on the Plenary.
BaseShape ==
    [assignees   |-> <<"A">>,
     calendarUrl |-> "u1",
     dayLine     |-> "Monday",
     timeLine    |-> << <<"09", "00">>, <<"10", "00">> >>,
     extraLine   |-> <<>>,
     rest        |-> <<"notes">>,
     title       |-> "Topic",
     repoName    |-> "apa"]

TimeStrings ==
    { <<"09", "00">>, <<"09", "10">>, <<"09", "20">>, <<"10", "00">>, <<"18", "00">> }

\* Issues that differ from the base in what decides their validity and list.
IntakeShapes ==
    { BaseShape,
      [BaseShape EXCEPT !.calendarUrl = "u2"],
      [BaseShape EXCEPT !.calendarUrl = "u2",
                        !.timeLine = << <<"09", "10">>, <<"10", "00">> >>],
      [BaseShape EXCEPT !.calendarUrl = "u3", !.dayLine = "Tuesday"],
      [BaseShape EXCEPT !.calendarUrl = "nowhere"],
      [BaseShape EXCEPT !.calendarUrl = ""],
      [BaseShape EXCEPT !.dayLine = "Tuesday"],
      [BaseShape EXCEPT !.dayLine = "someday"],
      [BaseShape EXCEPT !.dayLine = Undefined, !.timeLine = <<>>, !.rest = <<>>],
      [BaseShape EXCEPT !.timeLine = <<>>, !.rest = <<>>],
      [BaseShape EXCEPT !.timeLine = << <<"09", "00">> >>],
      [BaseShape EXCEPT !.timeLine = << <<"">> >>],
      [BaseShape EXCEPT !.timeLine = << <<"09", "20">>, <<"09", "10">> >>],
      [BaseShape EXCEPT !.assignees = <<>>],
      [BaseShape EXCEPT !.assignees = <<"A", "B">>, !.extraLine = <<"@B">>,
                        !.rest = <<"", "notes">>],
      [BaseShape EXCEPT !.title = ""],
      [BaseShape EXCEPT !.repoName = "wg", !.rest = <<>>] }

\* Well-formed issues of one person on the Plenary, with every window of
\* TimeStrings as the declared one, an end before the start included.
AnyWindowShapes ==
    { [BaseShape EXCEPT !.timeLine = <<s, e>>] : s \in TimeStrings, e \in TimeStrings }

\* Those whose declared window does not end before it starts.
ScheduleShapes ==
    { shape \in AnyWindowShapes :
        timeStringToPlainDateTime(0, shape.timeLine[1])
            <= timeStringToPlainDateTime(0, shape.timeLine[2]) }

\* The times of TimeStrings on monday.
Times == { timeStringToPlainDateTime(startOfDayFrom("monday"), t) : t \in TimeStrings }

IdleMain ==
    /\ issues = <<>>
    /\ equivalents = <<>>
    /\ alts = <<>>
    /\ pc = "unit"
    /\ i = 1
    /\ meetingCounter = 1
    /\ heap = <<>>
    /\ meetings = <<>>
    /\ invalidMeetings = <<>>
    /\ movedMeetings = <<>>
    /\ unassignedMeetings = <<>>
    /\ dayMeetings = dayThings
    /\ personDayMeetings = NewMap
    /\ personDayGaps = NewMap
    /\ repoMeetings = NewMap
    /\ peopleDefinitelyClashingMeetings = NewMap
    /\ peopleNearlyClashingMeetings = NewMap
    /\ scanned = 0
    /\ repoPossibleDuplicates = NewMap

IdleUnit ==
    /\ cms = NewClashingMeetingsSet
    /\ added = <<>>
    /\ matchArgs = <<>>
    /\ matchResult = Undefined
    /\ callArgs = <<>>
    /\ callResult = <<>>

\* The state when main starts on a list of at most MaxIssues issues.
InitMain(shapes, combines, allowLists) ==
    /\ \E n \in 0..MaxIssues : \E f \in [1..n -> shapes] :
          issues = [k \in 1..n |-> MakeIssue(f[k], k)]
    /\ equivalents \in combines
    /\ alts \in allowLists
    /\ pc = "intake"
    /\ i = 1
    /\ meetingCounter = 1
    /\ heap = <<>>
    /\ meetings = <<>>
    /\ invalidMeetings = <<>>
    /\ movedMeetings = <<>>
    /\ unassignedMeetings = <<>>
    /\ dayMeetings = dayThings
    /\ personDayMeetings = NewMap
    /\ personDayGaps = NewMap
    /\ repoMeetings = NewMap
    /\ peopleDefinitelyClashingMeetings = NewMap
    /\ peopleNearlyClashingMeetings = NewMap
    /\ scanned = 0
    /\ repoPossibleDuplicates = NewMap
    /\ IdleUnit

\* for (const [name, otherName] of args.combine) equivalents.set(name, otherName),
\* from the k-th pair on: a later pair of a name replaces an earlier one.
RECURSIVE SetEquivalents(_, _, _)
SetEquivalents(map, combine, k) ==
    IF k > Len(combine) THEN map
    ELSE SetEquivalents((combine[k][1] :> combine[k][2]) @@ map, combine, k + 1)

Init == InitMain(IntakeShapes, {<<>>}, {<<>>})

InitSchedule == InitMain(ScheduleShapes, {<<>>}, {<<>>})

Next ==
    \/ NoIssues
    \/ Intake
    \/ SortLists
    \/ Group
    \/ Scan
    \/ AttachAlternatives
    \/ FindDuplicates

Spec == Init /\ [][Next]_vars

SpecSchedule == InitSchedule /\ [][Next]_vars

InitAnyWindow == InitMain(AnyWindowShapes, {<<>>}, {<<>>})

SpecAnyWindow == InitAnyWindow /\ [][Next]_vars

\* ------------------------------------------------------------------------
\* A ClashingMeetingsSet on its own: any add calls, on meetings that differ
\* in nothing but their tags.

UnitMeeting(tag) == [tag |-> tag]

AddPair ==
    /\ Len(added) < MaxAdds
    /\ \E a \in 1..MaxTag, b \in 1..MaxTag :
          /\ cms' = add(cms, UnitMeeting(a), UnitMeeting(b))
          /\ added' = Append(added, <<a, b>>)
    /\ UNCHANGED <<mainVars, matchArgs, matchResult, callArgs, callResult>>

InitSet == IdleMain /\ IdleUnit

SpecSet == InitSet /\ [][AddPair]_vars

\* ------------------------------------------------------------------------
\* timeMatch on its own: one call, on any four times of Times.

ApplyTimeMatch ==
    /\ matchResult = Undefined
    /\ matchResult' = timeMatch(matchArgs[1], matchArgs[2], matchArgs[3], matchArgs[4])
    /\ UNCHANGED <<mainVars, cms, added, matchArgs, callArgs, callResult>>

InitTimeMatch ==
    /\ IdleMain
    /\ cms = NewClashingMeetingsSet
    /\ added = <<>>
    /\ matchArgs \in Times \X Times \X Times \X Times
    /\ matchResult = Undefined
    /\ callArgs = <<>>
    /\ callResult = <<>>

SpecTimeMatch == InitTimeMatch /\ [][ApplyTimeMatch]_vars

\* ------------------------------------------------------------------------
\* Properties of main and of its parts

\* The intake loop has run over every issue.
IntakeDone == pc # "crashed" /\ i > Len(issues)

\* The clash and gap scan has run over every person.
ScanDone ==
    \/ pc \in {"duplicates", "done"}
    \/ pc = "scan" /\ scanned = Len(personDayMeetings.keys)

People == Range(personDayMeetings.keys)

\* One person's meetings of one day, as the scan reads them.
DayList(name, day) == get(get(personDayMeetings, name), day)

\* One person's gaps of one day.
GapList(name, day) == get(get(personDayGaps, name), day)

\* The pairs a map of ClashingMeetingsSets holds for a person.
PairsOf(map, name) == IF has(map, name) THEN get(map, name).meetingPairs ELSE <<>>

\* The meetings x and y are a pair of the person's set, in either order.
Stored(map, name, x, y) ==
    \E k \in 1..Len(PairsOf(map, name)) :
        PairsOf(map, name)[k] \in {<<x, y>>, <<y, x>>}

StrictlyIncreasing(s) == \A k, l \in 1..Len(s) : k < l => s[k] < s[l]

Count(list, t) == Cardinality({k \in 1..Len(list) : list[k] = t})

\* C1: the k-th issue of a run gets the record with tag k, a valid record or
\* not: the counter starts at 1 and is one past the number of records made,
\* tags are pairwise distinct and increase in intake order, and so do the tags
\* of every list the intake loop fills.
TagsFromSharedCounter ==
    /\ meetingCounter = Len(heap) + 1
    /\ \A k \in 1..Len(heap) :
          heap[k].tag = k /\ heap[k].issueUrl = issues[k].url
    /\ \A k, l \in 1..Len(heap) : k < l => heap[k].tag < heap[l].tag
    /\ pc = "intake" =>
          /\ StrictlyIncreasing(meetings)
          /\ StrictlyIncreasing(movedMeetings)
          /\ StrictlyIncreasing(invalidMeetings)

\* An invalid record has taken tag 2 and the valid record after it tag 3.
InvalidRecordConsumedTag ==
    /\ Len(heap) = 3
    /\ ~isMeeting(heap[2])
    /\ isMeeting(heap[3])
    /\ heap[3].tag = 3
    /\ Includes(invalidMeetings, 2)
    /\ Includes(meetings, 3)

\* C2: every record made is in exactly one of meetings, movedMeetings and
\* invalidMeetings, and once the intake loop has run over every issue there
\* is one record for each issue, so the sizes of the three lists sum to the
\* number of issues.
EveryRecordInOneList ==
    /\ \A t \in 1..Len(heap) :
          Count(meetings, t) + Count(movedMeetings, t) + Count(invalidMeetings, t) = 1
    /\ \A t \in Range(meetings) \cup Range(movedMeetings) \cup Range(invalidMeetings) :
          t \in 1..Len(heap)
    /\ IntakeDone =>
          /\ Len(heap) = Len(issues)
          /\ \A k \in 1..Len(issues) : heap[k].issueUrl = issues[k].url
          /\ Len(meetings) + Len(movedMeetings) + Len(invalidMeetings) = Len(issues)

\* Three issues have been taken in, one into each list.
IntakeFilledAllLists ==
    /\ IntakeDone
    /\ Len(issues) = 3
    /\ Len(meetings) = 1
    /\ Len(movedMeetings) = 1
    /\ Len(invalidMeetings) = 1

\* C3: timeMatch(authStart, authEnd, declStart, declEnd) is EXACT iff the
\* starts are equal and the ends are equal, SUBSET iff authStart <= declStart
\* and authEnd >= declEnd and the windows are not equal, and NOPE otherwise.
TimeMatchClassifies ==
    matchResult # Undefined =>
        LET authStart == matchArgs[1]
            authEnd   == matchArgs[2]
            declStart == matchArgs[3]
            declEnd   == matchArgs[4]
            equal     == authStart = declStart /\ authEnd = declEnd
            contained == authStart <= declStart /\ authEnd >= declEnd
        IN  /\ matchResult \in {MatchEXACT, MatchSUBSET, MatchNOPE}
            /\ matchResult = MatchEXACT <=> equal
            /\ matchResult = MatchSUBSET <=> (contained /\ ~equal)
            /\ matchResult = MatchNOPE <=> ~contained

\* A declared window that shares the start of the authoritative one and ends
\* before it has been classified SUBSET.
SubsetSharingStart ==
    /\ matchResult = MatchSUBSET
    /\ matchArgs[1] = matchArgs[3]
    /\ matchArgs[4] < matchArgs[2]
    /\ matchArgs[3] < matchArgs[4]

\* The README's bound of a near clash, in minutes.
TenMinutes == 10

\* The declared windows of a and b share a positive duration.
Overlapping(a, b) == a.start < b.end /\ b.start < a.end

\* The window of a lies strictly inside that of b.
StrictlyInside(a, b) == b.start < a.start /\ a.end < b.end

\* C4: once the scan is done, any two distinct on-schedule meetings of one
\* person and day, each with start < end, whose windows overlap for a positive
\* duration and which are not the same booking, are classified DEFO and are a
\* pair of the person's definitely clashing set.
OverlappingPairsAreHardClashes ==
    ScanDone =>
        \A name \in People : \A day \in Range(Days) :
            \A x, y \in Range(DayList(name, day)) :
                ( /\ x # y
                  /\ Includes(meetings, x) /\ Includes(meetings, y)
                  /\ heap[x].start < heap[x].end
                  /\ heap[y].start < heap[y].end
                  /\ Overlapping(heap[x], heap[y])
                  /\ ~sameActualMeeting(heap[x], heap[y]) )
                => /\ clashes(heap[x], heap[y]) = ClashDEFO
                   /\ Stored(peopleDefinitelyClashingMeetings, name, x, y)

\* C5: once the scan is done, for any two meetings of one person and day of
\* which the earlier ends g > 0 minutes before the later starts: if g <= 10
\* the pair is classified NEAR, in either argument order, and is a pair of the
\* person's nearly clashing set only; if g > 10 it is classified NONE and is a
\* pair of neither set.
SeparatedPairsByGap ==
    ScanDone =>
        \A name \in People : \A day \in Range(Days) :
            \A x, y \in Range(DayList(name, day)) :
                ( /\ heap[x].start <= heap[x].end
                  /\ heap[y].start <= heap[y].end
                  /\ heap[x].end < heap[y].start )
                => IF heap[y].start - heap[x].end <= TenMinutes
                   THEN /\ clashes(heap[x], heap[y]) = ClashNEAR
                        /\ clashes(heap[y], heap[x]) = ClashNEAR
                        /\ Stored(peopleNearlyClashingMeetings, name, x, y)
                        /\ ~Stored(peopleDefinitelyClashingMeetings, name, x, y)
                   ELSE /\ clashes(heap[x], heap[y]) = ClashNONE
                        /\ clashes(heap[y], heap[x]) = ClashNONE
                        /\ ~Stored(peopleNearlyClashingMeetings, name, x, y)
                        /\ ~Stored(peopleDefinitelyClashingMeetings, name, x, y)

\* One person has a meeting that ends exactly ten minutes before the next
\* starts, filed as a near clash, and one further off, filed nowhere.
TenMinuteGapIsNear ==
    /\ ScanDone
    /\ \E name \in People : \E day \in Range(Days) :
          \E x, y, z \in Range(DayList(name, day)) :
              /\ heap[x].start < heap[x].end
              /\ heap[y].start - heap[x].end = TenMinutes
              /\ heap[y].start < heap[y].end
              /\ heap[z].start - heap[y].end > TenMinutes
              /\ Stored(peopleNearlyClashingMeetings, name, x, y)
              /\ ~Stored(peopleNearlyClashingMeetings, name, y, z)
              /\ ~Stored(peopleDefinitelyClashingMeetings, name, y, z)

\* The first of x and y has a positive duration and ends as the second starts.
BackToBack(x, y) ==
    /\ heap[x].start < heap[x].end
    /\ heap[x].end = heap[y].start
    /\ heap[y].start <= heap[y].end

\* C6, as stated: once the scan is done, two meetings of one person and day of
\* which the first ends as the second starts are classified NONE and are a
\* pair of neither clash set.
BackToBackIsNoClash ==
    ScanDone =>
        \A name \in People : \A day \in Range(Days) :
            \A x, y \in Range(DayList(name, day)) :
                BackToBack(x, y)
                => /\ clashes(heap[x], heap[y]) = ClashNONE
                   /\ ~Stored(peopleNearlyClashingMeetings, name, x, y)
                   /\ ~Stored(peopleDefinitelyClashingMeetings, name, x, y)

\* C6, amended: once the scan is done, two meetings of one person and day of
\* which the first, of positive duration, ends as the second starts are
\* classified NEAR, in either argument order, and are a pair of the person's
\* nearly clashing set and not of the definitely clashing one.
BackToBackIsNearClash ==
    ScanDone =>
        \A name \in People : \A day \in Range(Days) :
            \A x, y \in Range(DayList(name, day)) :
                BackToBack(x, y)
                => /\ clashes(heap[x], heap[y]) = ClashNEAR
                   /\ clashes(heap[y], heap[x]) = ClashNEAR
                   /\ Stored(peopleNearlyClashingMeetings, name, x, y)
                   /\ ~Stored(peopleDefinitelyClashingMeetings, name, x, y)

\* One person has 09:00-10:00 followed by 10:00-18:00, filed as a near clash.
BackToBackScanned ==
    /\ ScanDone
    /\ \E name \in People : \E day \in Range(Days) :
          \E x, y \in Range(DayList(name, day)) :
              /\ BackToBack(x, y)
              /\ heap[y].start < heap[y].end
              /\ heap[x].end - heap[x].start = MinutesPerHour
              /\ Stored(peopleNearlyClashingMeetings, name, x, y)

\* The two tags of a pair, without their order.
Unordered(pair) == {pair[1], pair[2]}

\* C7: after any add calls on a ClashingMeetingsSet, every stored pair has its
\* lower tag first, no two stored pairs have the same two tags, every stored
\* pair was added, and size is the number of distinct unordered pairs of tags
\* among the calls made.
PairsStoredOnce ==
    /\ \A k \in 1..size(cms) :
          /\ cms.meetingPairs[k][1] <= cms.meetingPairs[k][2]
          /\ \E l \in 1..Len(added) :
                Unordered(added[l]) = Unordered(cms.meetingPairs[k])
    /\ \A k, l \in 1..size(cms) :
          k # l => Unordered(cms.meetingPairs[k]) # Unordered(cms.meetingPairs[l])
    /\ size(cms) = Cardinality({Unordered(added[k]) : k \in 1..Len(added)})
    /\ cms.idPairs = Range(cms.meetingPairs)

\* Meetings 1, 2 and 3 have been added as all six ordered pairs, and three
\* pairs are stored.
SixOrderedPairsAdded ==
    /\ Len(added) = 6
    /\ Range(added) = {<<a, b>> : a, b \in 1..3} \ {<<a, a>> : a \in 1..3}
    /\ size(cms) = 3

\* C8: no pair of any person's definitely or nearly clashing set is of two
\* meetings with the same calendar URL, the same start and the same end.
SameBookingNeverPaired ==
    \A map \in {peopleDefinitelyClashingMeetings, peopleNearlyClashingMeetings} :
        \A name \in Range(map.keys) :
            \A k \in 1..Len(PairsOf(map, name)) :
                LET a == heap[PairsOf(map, name)[k][1]]
                    b == heap[PairsOf(map, name)[k][2]]
                IN  ~( /\ a.calendarUrl = b.calendarUrl
                       /\ a.start = b.start
                       /\ a.end = b.end )

\* One booking filed in two repositories has gone through one person's scan
\* without being paired, while each of the two is paired with a third meeting.
SameBookingInTwoRepos ==
    /\ ScanDone
    /\ \E name \in People : \E day \in Range(Days) :
          \E x, y, z \in Range(DayList(name, day)) :
              /\ x # y
              /\ heap[x].calendarUrl = heap[y].calendarUrl
              /\ heap[x].start = heap[y].start
              /\ heap[x].end = heap[y].end
              /\ repo(heap[x].issueUrl) # repo(heap[y].issueUrl)
              /\ heap[x].title = heap[y].title
              /\ clashes(heap[x], heap[y]) = ClashDEFO
              /\ ~Stored(peopleDefinitelyClashingMeetings, name, x, y)
              /\ Stored(peopleDefinitelyClashingMeetings, name, x, z)
              /\ Stored(peopleDefinitelyClashingMeetings, name, y, z)

\* 09:00-18:00 of a day.
NineToSix(day) ==
    [start |-> startOfDayFrom(day) + 9 * MinutesPerHour,
     end   |-> startOfDayFrom(day) + 18 * MinutesPerHour]

\* The times at which a maximal free interval of the day can start or end.
Endpoints(list, day) ==
    {NineToSix(day).start, NineToSix(day).end}
        \cup {heap[t].start : t \in Range(list)}
        \cup {heap[t].end : t \in Range(list)}

\* No meeting of the list covers any part of the interval from s to e.
Free(list, s, e) ==
    /\ s < e
    /\ \A t \in Range(list) : ~(heap[t].start < e /\ s < heap[t].end)

\* The intervals of 09:00-18:00 that no meeting of the list covers and that
\* no larger such interval contains.
MaximalFree(list, day) ==
    LET points == Endpoints(list, day)
        free   == {p \in points \X points : Free(list, p[1], p[2])}
    IN  {[start |-> p[1], end |-> p[2]] :
            p \in {q \in free :
                     \A r \in free : (r[1] <= q[1] /\ q[2] <= r[2]) => r = q}}

\* Every meeting of the list has start < end and lies inside 09:00-18:00.
InsideWorkingDay(list, day) ==
    \A t \in Range(list) :
        /\ heap[t].start < heap[t].end
        /\ NineToSix(day).start <= heap[t].start
        /\ heap[t].end <= NineToSix(day).end

\* C9: once the scan is done, for every person and day whose meetings all
\* have start < end and lie inside 09:00-18:00, the gaps emitted are exactly
\* the maximal intervals of 09:00-18:00 that none of the meetings covers, each
\* once and in chronological order; so none for a fully booked day and the
\* one gap 09:00-18:00 for a day without a meeting.
GapsAreMaximalFreeIntervals ==
    ScanDone =>
        \A name \in People : \A day \in Range(Days) :
            InsideWorkingDay(DayList(name, day), day)
            => /\ Range(GapList(name, day)) = MaximalFree(DayList(name, day), day)
               /\ \A k, l \in 1..Len(GapList(name, day)) :
                     k < l => GapList(name, day)[k].end < GapList(name, day)[l].start
               /\ Len(DayList(name, day)) = 0
                     => GapList(name, day) = <<NineToSix(day)>>
               /\ (\E t \in Range(DayList(name, day)) :
                       /\ heap[t].start = NineToSix(day).start
                       /\ heap[t].end = NineToSix(day).end)
                     => GapList(name, day) = <<>>

\* One person's day holds a meeting nested in an earlier, longer one and a
\* later meeting, with a gap before the first, one between the longer and the
\* later, and none after.
NestedMeetingsScanned ==
    /\ ScanDone
    /\ \E name \in People : \E day \in Range(Days) :
          /\ InsideWorkingDay(DayList(name, day), day)
          /\ Len(GapList(name, day)) = 1
          /\ \E x, y \in Range(DayList(name, day)) :
                /\ StrictlyInside(heap[y], heap[x])
                /\ GapList(name, day)[1].start = heap[x].end
          /\ \E u \in People : GapList(u, "tuesday") = <<NineToSix("tuesday")>>

\* C10: every emitted gap has its start before its end, and no two gaps of
\* one person and day overlap.
GapsNeverOverlap ==
    \A name \in Range(personDayGaps.keys) : \A day \in Range(Days) :
        /\ \A k \in 1..Len(GapList(name, day)) :
              GapList(name, day)[k].start < GapList(name, day)[k].end
        /\ \A k, l \in 1..Len(GapList(name, day)) :
              k # l => ~Overlapping(GapList(name, day)[k], GapList(name, day)[l])

\* ------------------------------------------------------------------------
\* alternatives on its own: one call, on an allow-list, a gap map of A and B
\* and a meeting with any window of Times, an end before the start included.

\* personDayGaps with the given gaps of monday for each of the given names.
GapMapOf(names, gapsOf) ==
    [keys |-> names,
     vals |-> [n \in Range(names) |-> set(dayThings, "monday", gapsOf[n])]]

UnitGap(s, e) ==
    [start |-> timeStringToPlainDateTime(startOfDayFrom("monday"), s),
     end   |-> timeStringToPlainDateTime(startOfDayFrom("monday"), e)]

\* Gap lists the scan can leave for one day: none, one gap, two gaps apart
\* and two gaps that touch.
UnitGapLists ==
    { <<>>,
      <<UnitGap(<<"09", "10">>, <<"10", "00">>)>>,
      <<UnitGap(<<"09", "00">>, <<"09", "10">>), UnitGap(<<"09", "20">>, <<"18", "00">>)>>,
      <<UnitGap(<<"09", "00">>, <<"10", "00">>), UnitGap(<<"10", "00">>, <<"18", "00">>)>> }

UnitGapMaps ==
    {NewMap}
        \cup {GapMapOf(<<"B">>, [n \in {"B"} |-> gaps]) : gaps \in UnitGapLists}
        \cup {GapMapOf(<<"A", "B">>,
                       [n \in {"A", "B"} |->
                           IF n = "A" THEN <<UnitGap(<<"09", "00">>, <<"18", "00">>)>>
                           ELSE gaps]) : gaps \in UnitGapLists}

InitAlternatives ==
    /\ IdleMain
    /\ cms = NewClashingMeetingsSet
    /\ added = <<>>
    /\ matchArgs = <<>>
    /\ matchResult = Undefined
    /\ \E allowed \in {<<>>, <<"A">>, <<"B">>}, pdg \in UnitGapMaps,
          names \in {<<>>, <<"A">>}, day \in {"monday", "tuesday"},
          start \in Times, end \in Times :
          callArgs = [allowed |-> allowed, pdg |-> pdg,
                      m |-> [names |-> names, day |-> day,
                             start |-> start, end |-> end]]
    /\ callResult = <<>>

ApplyAlternatives ==
    /\ Len(callResult) = 0
    /\ callResult' = <<alternatives(callArgs.allowed, callArgs.pdg, callArgs.m)>>
    /\ UNCHANGED <<mainVars, cms, added, matchArgs, matchResult, callArgs>>

SpecAlternatives == InitAlternatives /\ [][ApplyAlternatives]_vars

\* The gaps of a name on the day of the meeting of the call.
CallGaps(name) ==
    IF has(callArgs.pdg, name) THEN get(get(callArgs.pdg, name), callArgs.m.day)
    ELSE <<>>

\* What every name must meet to be an alternative, its gaps apart.
CallCandidate(name) ==
    /\ has(callArgs.pdg, name)
    /\ ~Includes(callArgs.m.names, name)
    /\ Len(callArgs.allowed) = 0 \/ Includes(callArgs.allowed, name)

\* C11, as stated: a name is in alternatives(allowList, gaps, m) iff it is a
\* key of the gap map, is not in m.names, is on the allow-list or the
\* allow-list is empty, and has a gap g on m.day with g.start <= m.start and
\* m.end <= g.end.
AlternativesByCover ==
    Len(callResult) = 1 =>
        \A name \in {"A", "B", "C"} :
            Includes(callResult[1], name)
            <=> /\ CallCandidate(name)
                /\ \E k \in 1..Len(CallGaps(name)) :
                      /\ CallGaps(name)[k].start <= callArgs.m.start
                      /\ callArgs.m.end <= CallGaps(name)[k].end

\* C11, amended: a name is in alternatives(allowList, gaps, m) iff it is a
\* key of the gap map, is not in m.names, is on the allow-list or the
\* allow-list is empty, and has a gap g on m.day with both m.start and m.end
\* in g.start..g.end, bounds included.
AlternativesByBothEnds ==
    Len(callResult) = 1 =>
        \A name \in {"A", "B", "C"} :
            Includes(callResult[1], name)
            <=> /\ CallCandidate(name)
                /\ \E k \in 1..Len(CallGaps(name)) :
                      /\ CallGaps(name)[k].start <= callArgs.m.start
                      /\ callArgs.m.start <= CallGaps(name)[k].end
                      /\ CallGaps(name)[k].start <= callArgs.m.end
                      /\ callArgs.m.end <= CallGaps(name)[k].end

\* B is an alternative for a meeting that fills one of B's gaps to both
\* bounds, with A, who is on the meeting, left out although free.
AlternativeFound ==
    /\ Len(callResult) = 1
    /\ callResult[1] = <<"B">>
    /\ callArgs.m.names = <<"A">>
    /\ has(callArgs.pdg, "A")
    /\ callArgs.m.start < callArgs.m.end
    /\ \E k \in 1..Len(CallGaps("B")) :
          /\ CallGaps("B")[k].start = callArgs.m.start
          /\ CallGaps("B")[k].end = callArgs.m.end

\* The run is over and there were issues.
RunDone == pc = "done" /\ Len(issues) > 0

\* The Duplicate Groups of a repository.
GroupsOf(r) ==
    IF has(repoPossibleDuplicates, r) THEN get(repoPossibleDuplicates, r) ELSE <<>>

\* The meetings x and y are members of one Duplicate Group of the repository.
GroupedTogether(r, x, y) ==
    \E k \in 1..Len(GroupsOf(r)) :
        Includes(GroupsOf(r)[k], x) /\ Includes(GroupsOf(r)[k], y)

\* Every Duplicate Group has more than one member, all of its repository and
\* with one calendar URL.
GroupsWellFormed ==
    \A r \in Range(repoPossibleDuplicates.keys) :
        \A k \in 1..Len(GroupsOf(r)) :
            /\ Len(GroupsOf(r)[k]) > 1
            /\ \A x, y \in Range(GroupsOf(r)[k]) :
                  /\ repo(heap[x].issueUrl) = r
                  /\ heap[x].calendarUrl = heap[y].calendarUrl

\* C12: when the run is over, any two valid Meetings of one repository with
\* equal calendar URLs are members of one Duplicate Group of that repository,
\* and every Duplicate Group has more than one member, all of one repository
\* and with one calendar URL, so none of another repository.
ValidMeetingsOfOneRepoGrouped ==
    RunDone =>
        /\ \A x, y \in 1..Len(heap) :
              ( /\ x # y
                /\ isMeeting(heap[x]) /\ isMeeting(heap[y])
                /\ repo(heap[x].issueUrl) = repo(heap[y].issueUrl)
                /\ heap[x].calendarUrl = heap[y].calendarUrl )
              => GroupedTogether(repo(heap[x].issueUrl), x, y)
        /\ GroupsWellFormed

\* ------------------------------------------------------------------------
\* isMeeting on its own: on the record meetingFromIssue builds from a
\* complete issue, and on that record less one property.

\* Issues with every line of the body in place, on a calendar entry that has
\* every field: any declared day and window, any assignees.
CompleteShapes ==
    { [BaseShape EXCEPT !.calendarUrl = url, !.dayLine = day,
                        !.timeLine = <<s, e>>, !.assignees = assignees,
                        !.repoName = repoName] :
        url \in {"u1", "u2"}, day \in {"Monday", "Tuesday"},
        s \in TimeStrings, e \in TimeStrings,
        assignees \in {<<>>, <<"A">>, <<"A", "B">>}, repoName \in {"apa", "wg"} }

\* The properties of a Meeting, alternatives apart.
MeetingFields ==
    {"tag", "kind", "calendarTitle", "title", "calendarDay", "day",
     "calendarStart", "start", "calendarEnd", "end", "match", "calendarRoom",
     "names", "calendarUrl", "issueUrl", "notes"}

\* The record p without the property.
Without(p, field) == [f \in DOMAIN p \ {field} |-> p[f]]

InitIsMeeting ==
    /\ IdleMain
    /\ cms = NewClashingMeetingsSet
    /\ added = <<>>
    /\ matchArgs = <<>>
    /\ matchResult = Undefined
    /\ \E shape \in CompleteShapes, field \in MeetingFields :
          callArgs = [issue |-> MakeIssue(shape, 1), field |-> field]
    /\ callResult = <<>>

ApplyIsMeeting ==
    /\ Len(callResult) = 0
    /\ \E meeting \in {meetingFromIssue(Schedule, callArgs.issue, meetingCounter)} :
          callResult' = <<[meeting |-> meeting,
                           whole   |-> isMeeting(meeting),
                           less    |-> isMeeting(Without(meeting, callArgs.field))]>>
    /\ UNCHANGED <<mainVars, cms, added, matchArgs, matchResult, callArgs>>

SpecIsMeeting == InitIsMeeting /\ [][ApplyIsMeeting]_vars

\* C13: the record meetingFromIssue builds from a complete, well-formed issue
\* on a fully populated calendar entry satisfies isMeeting; without any one
\* of tag, kind, the two titles, the two days, the four times, match, room,
\* names, calendar URL and issue URL it does not; without notes it does.
CompleteRecordIsMeeting ==
    Len(callResult) = 1 =>
        /\ callResult[1].whole
        /\ callArgs.field # "notes" => ~callResult[1].less
        /\ callArgs.field = "notes" => callResult[1].less

\* A complete record of a moved meeting nobody is assigned to has been
\* checked whole and without its room.
RoomRemoved ==
    /\ Len(callResult) = 1
    /\ callArgs.field = "calendarRoom"
    /\ callResult[1].whole
    /\ ~callResult[1].less
    /\ callResult[1].meeting.match = MatchNOPE
    /\ callResult[1].meeting.names = <<>>
    /\ callResult[1].meeting.calendarRoom = "Room 2"

\* The day line of the body is missing or is no day.
MalformedDay(body) == ~isDay(RawDay(body))

\* The time line of the body is missing or is not two endpoints of numbers.
MalformedTime(body) ==
    \/ Len(body.timeLine) # 2
    \/ \E k \in 1..Len(body.timeLine) : timeStringThrows(body.timeLine[k])

\* C14: no issue body makes extractBodyInfo or meetingFromIssue throw, so no
\* run ends in the intake loop; the record of an issue whose day line is
\* missing or unrecognised has no day, that of one whose time line is missing
\* or unparseable lacks its start or its end, either record is in
\* invalidMeetings, and the loop makes a record for every issue.
MalformedBodyNeverThrows ==
    /\ pc # "crashed"
    /\ \A k \in 1..Len(heap) :
          /\ MalformedDay(issues[k].body)
                => heap[k].day = Undefined /\ Includes(invalidMeetings, k)
          /\ MalformedTime(issues[k].body)
                => /\ heap[k].start = NoTime \/ heap[k].end = NoTime
                   /\ Includes(invalidMeetings, k)
    /\ i > Len(issues) => Len(heap) = Len(issues)

\* ------------------------------------------------------------------------
\* Runs of main with --combine

\* Issues of A, of B and of D on the Plenary, on two windows that overlap,
\* and an issue of both A and B.
CombineShapes ==
    { [BaseShape EXCEPT !.assignees = <<"A", "B">>] } \cup
    { [BaseShape EXCEPT !.assignees = <<name>>, !.timeLine = <<s, <<"10", "00">> >>] :
        name \in {"A", "B", "D"}, s \in { <<"09", "00">>, <<"09", "10">> } }

\* --combine A B; the same with --combine D A, a chain; and the same with
\* --combine D B, two names for one.
Combines ==
    { SetEquivalents(<<>>, combine, 1) :
        combine \in { << <<"A", "B">> >>,
                      << <<"A", "B">>, <<"D", "A">> >>,
                      << <<"A", "B">>, <<"D", "B">> >> } }

InitCombine == InitMain(CombineShapes, Combines, {<<>>})

SpecCombine == InitCombine /\ [][Next]_vars

\* The grouping by person is done.
GroupDone == pc \in {"scan", "duplicates", "done"} /\ Len(issues) > 0

\* The name a raw name stands for: the one --combine gives for it, if any.
MappedName(name) ==
    IF name \in DOMAIN equivalents THEN equivalents[name] ELSE name

\* The mapped names of the raw names of a meeting.
MappedNames(t) == {MappedName(heap[t].names[k]) : k \in 1..Len(heap[t].names)}

\* C15: once the grouping is done, the people with a schedule are the mapped
\* names of the raw names of the on-schedule meetings, each mapped by one
\* look-up; every meeting is in the day list of the mapped name of each of
\* its raw names and in no other person's; and once the scan is done, two
\* meetings of raw names with one mapped name that classify as DEFO are a
\* pair of the definitely clashing set of that mapped name.
CombinedBySingleLookUp ==
    /\ GroupDone =>
          /\ People = UNION {MappedNames(t) : t \in Range(meetings)}
          /\ \A t \in Range(meetings) : \A name \in People :
                Includes(DayList(name, heap[t].day), t) <=> name \in MappedNames(t)
    /\ ScanDone =>
          \A x, y \in Range(meetings) :
              \A k \in 1..Len(heap[x].names) : \A l \in 1..Len(heap[y].names) :
                  ( /\ x # y
                    /\ MappedName(heap[x].names[k]) = MappedName(heap[y].names[l])
                    /\ heap[x].day = heap[y].day
                    /\ ~sameActualMeeting(heap[x], heap[y])
                    /\ clashes(heap[x], heap[y]) = ClashDEFO )
                  => Stored(peopleDefinitelyClashingMeetings,
                            MappedName(heap[x].names[k]), x, y)

\* With --combine A B and --combine D A: a meeting of A and one of B clash
\* under B, and a meeting of D is under A, not under B.
CombinedClashUnderOtherName ==
    /\ ScanDone
    /\ equivalents = ("A" :> "B") @@ ("D" :> "A")
    /\ \E x, y, z \in Range(meetings) :
          /\ heap[x].names = <<"A">>
          /\ heap[y].names = <<"B">>
          /\ heap[z].names = <<"D">>
          /\ Stored(peopleDefinitelyClashingMeetings, "B", x, y)
          /\ Includes(DayList("A", heap[z].day), z)
          /\ ~Includes(DayList("B", heap[z].day), z)

\* ------------------------------------------------------------------------
\* Moved meetings

\* The on-schedule meetings of a person on a day, in the order of meetings.
OnSchedule(name, day) ==
    LET Attends(t) == Includes(heap[t].names, name) /\ heap[t].day = day
    IN  SelectSeq(meetings, Attends)

\* The meeting is in a pair of some person's set of the map.
InSomePair(map, t) ==
    \E name \in Range(map.keys) : \E k \in 1..Len(PairsOf(map, name)) :
        t \in Range(PairsOf(map, name)[k])

\* C16: a valid record is in movedMeetings iff its match is NOPE and in
\* meetings iff it is not; a moved meeting is in no person's list of any day
\* and in no pair of a definitely or nearly clashing set; every person's list
\* of a day is made of the on-schedule meetings of that person and day alone,
\* and the gaps of the day start and end only at 09:00, at 18:00 or at a start
\* or end of one of those, and are the maximal free intervals between them
\* when they lie inside the working day.
MovedMeetingsLeftOut ==
    /\ \A t \in 1..Len(heap) :
          isMeeting(heap[t])
          => /\ Includes(movedMeetings, t) <=> heap[t].match = MatchNOPE
             /\ Includes(meetings, t) <=> heap[t].match # MatchNOPE
    /\ \A t \in Range(movedMeetings) :
          /\ \A name \in People : \A day \in Range(Days) :
                ~Includes(DayList(name, day), t)
          /\ ~InSomePair(peopleDefinitelyClashingMeetings, t)
          /\ ~InSomePair(peopleNearlyClashingMeetings, t)
    /\ GroupDone =>
          \A name \in People : \A day \in Range(Days) :
              DayList(name, day) = OnSchedule(name, day)
    /\ ScanDone =>
          \A name \in People : \A day \in Range(Days) :
              /\ \A k \in 1..Len(GapList(name, day)) :
                    /\ GapList(name, day)[k].start \in Endpoints(OnSchedule(name, day), day)
                    /\ GapList(name, day)[k].end \in Endpoints(OnSchedule(name, day), day)
              /\ InsideWorkingDay(OnSchedule(name, day), day)
                    => Range(GapList(name, day)) = MaximalFree(OnSchedule(name, day), day)

\* A person with an on-schedule meeting has a moved meeting on a day on
\* which one of the person's gaps overlaps the moved meeting's window.
MovedMeetingInsideGap ==
    /\ ScanDone
    /\ \E t \in Range(movedMeetings) : \E name \in People :
          /\ Includes(heap[t].names, name)
          /\ heap[t].day \in Range(Days)
          /\ heap[t].start < heap[t].end
          /\ Len(DayList(name, heap[t].day)) > 0
          /\ \E k \in 1..Len(GapList(name, heap[t].day)) :
                Overlapping(GapList(name, heap[t].day)[k], heap[t])

\* ------------------------------------------------------------------------
\* Calls of clashes

\* Times of a Monday, five minutes and the buffer apart among them.
ClashTimes ==
    { timeStringToPlainDateTime(startOfDayFrom("monday"), s) :
        s \in { <<"09", "00">>, <<"09", "10">>, <<"09", "20">>, <<"09", "55">>,
                <<"10", "00">>, <<"10", "10">>, <<"10", "55">> } }

\* The start and end of a meeting, all that clashes reads of it.
ClashWindows == [start : ClashTimes, end : ClashTimes]

InitClashes ==
    /\ IdleMain
    /\ cms = NewClashingMeetingsSet
    /\ added = <<>>
    /\ matchArgs = <<>>
    /\ matchResult = Undefined
    /\ \E a \in ClashWindows, b \in ClashWindows : callArgs = [a |-> a, b |-> b]
    /\ callResult = <<>>

ApplyClashes ==
    /\ Len(callResult) = 0
    /\ callResult' = <<clashes(callArgs.a, callArgs.b)>>
    /\ UNCHANGED <<mainVars, cms, added, matchArgs, matchResult, callArgs>>

SpecClashes == InitClashes /\ [][ApplyClashes]_vars

\* The call of clashes has returned, and both meetings have start <= end.
ClashesReturned ==
    /\ Len(callResult) = 1
    /\ callArgs.a.start <= callArgs.a.end
    /\ callArgs.b.start <= callArgs.b.end

\* The two meetings of the call as (m, o), in each order by start.
ByStart ==
    { p \in {<<callArgs.a, callArgs.b>>, <<callArgs.b, callArgs.a>>} :
        p[1].start <= p[2].start }

\* A time of the Monday.
At(h, m) == startOfDayFrom("monday") + h * MinutesPerHour + m

\* o.start <= m.start <= o.end, or o.start < m.end <= o.end.
HardChecks(m, o) ==
    \/ o.start <= m.start /\ m.start <= o.end
    \/ o.start < m.end /\ m.end <= o.end

\* The result is DEFO iff the two hard checks say so, and 09:00-10:00
\* against 09:55-10:55 is DEFO.
DefoByHardChecks ==
    ClashesReturned =>
        /\ \A p \in ByStart : callResult[1] = ClashDEFO <=> HardChecks(p[1], p[2])
        /\ ( /\ callArgs.a = [start |-> At(9, 0), end |-> At(10, 0)]
             /\ callArgs.b = [start |-> At(9, 55), end |-> At(10, 55)] )
           => callResult[1] = ClashDEFO

\* C17 as stated: DEFO iff one of the two hard checks passes, never DEFO when
\* one of the meetings ends exactly when the other starts, and DEFO for
\* 09:00-10:00 against 09:55-10:55.
EndAtStartNeverDefo ==
    /\ DefoByHardChecks
    /\ ClashesReturned =>
          \A p \in ByStart : p[1].end = p[2].start => callResult[1] # ClashDEFO

\* C17: for two meetings with start <= end, (m, o) being the two by start,
\* clashes is DEFO iff o.start <= m.start <= o.end or o.start < m.end <=
\* o.end; a meeting that lasts some time and ends exactly when the other
\* starts is never DEFO; 09:00-10:00 against 09:55-10:55 is DEFO.
LastingEndAtStartNeverDefo ==
    /\ DefoByHardChecks
    /\ ClashesReturned =>
          \A p \in ByStart :
              (p[1].start < p[1].end /\ p[1].end = p[2].start)
              => callResult[1] # ClashDEFO

\* 09:00-10:00 against 10:00-10:55 has returned NEAR.
SharedBoundaryReturnedNear ==
    /\ callArgs.a = [start |-> At(9, 0), end |-> At(10, 0)]
    /\ callArgs.b = [start |-> At(10, 0), end |-> At(10, 55)]
    /\ callResult = <<ClashNEAR>>

\* The result, given whether the checks against the widened window pass.
NearIffWidened(result, m, o, widened) ==
    /\ result \in {ClashDEFO, ClashNEAR, ClashNONE}
    /\ result = ClashNEAR <=> (~HardChecks(m, o) /\ widened)
    /\ result = ClashNONE <=> (~HardChecks(m, o) /\ ~widened)

\* C18 as stated: NEAR iff not DEFO and o.start - 10 <= m.start <= o.end + 10
\* or o.start - 10 < m.end <= o.end + 10, the end no earlier than strictly
\* after the widened start; NONE otherwise.
NearByStrictEndCheck ==
    ClashesReturned =>
        \A p \in ByStart :
            NearIffWidened(callResult[1], p[1], p[2],
                \/ p[2].start - TenMinutes <= p[1].start
                   /\ p[1].start <= p[2].end + TenMinutes
                \/ p[2].start - TenMinutes < p[1].end
                   /\ p[1].end <= p[2].end + TenMinutes)

\* C18: for two meetings with start <= end, (m, o) being the two by start,
\* clashes is NEAR iff it is not DEFO and o.start - 10 <= m.start <=
\* o.end + 10 or o.start - 10 <= m.end <= o.end + 10, both lower bounds
\* included; it is NONE iff it is neither DEFO nor NEAR.
NearByWidenedChecks ==
    ClashesReturned =>
        \A p \in ByStart :
            NearIffWidened(callResult[1], p[1], p[2],
                \/ p[2].start - TenMinutes <= p[1].start
                   /\ p[1].start <= p[2].end + TenMinutes
                \/ p[2].start - TenMinutes <= p[1].end
                   /\ p[1].end <= p[2].end + TenMinutes)

\* 09:00-09:10 against 09:20-10:00, the end exactly ten minutes before the
\* other start, has returned NEAR.
EndTenBeforeStartReturnedNear ==
    /\ callArgs.a = [start |-> At(9, 0), end |-> At(9, 10)]
    /\ callArgs.b = [start |-> At(9, 20), end |-> At(10, 0)]
    /\ callResult = <<ClashNEAR>>

\* ------------------------------------------------------------------------
\* C19: no pair of a person's nearly clashing set is a pair of meetings, each
\* with start < end, whose declared windows share a positive duration, and
\* no such pair classifies as NEAR.
NearPairsNeverOverlap ==
    /\ \A name \in Range(peopleNearlyClashingMeetings.keys) :
          \A k \in 1..Len(PairsOf(peopleNearlyClashingMeetings, name)) :
              \A x \in {PairsOf(peopleNearlyClashingMeetings, name)[k][1]} :
              \A y \in {PairsOf(peopleNearlyClashingMeetings, name)[k][2]} :
                  (heap[x].start < heap[x].end /\ heap[y].start < heap[y].end)
                  => ~Overlapping(heap[x], heap[y])
    /\ ScanDone =>
          \A name \in People : \A day \in Range(Days) :
              \A x, y \in Range(DayList(name, day)) :
                  ( /\ heap[x].start < heap[x].end
                    /\ heap[y].start < heap[y].end
                    /\ Overlapping(heap[x], heap[y]) )
                  => clashes(heap[x], heap[y]) # ClashNEAR

\* ------------------------------------------------------------------------
\* C20: for any two meetings of one person and day with start <= end, equal
\* starts included, clashes gives one classification for both argument
\* orders, and the pair is not in both the definitely and the nearly clashing
\* set of the person.
ClashesOrderIndependent ==
    \A name \in People : \A day \in Range(Days) :
        \A x, y \in Range(DayList(name, day)) :
            (heap[x].start <= heap[x].end /\ heap[y].start <= heap[y].end)
            => /\ clashes(heap[x], heap[y]) = clashes(heap[y], heap[x])
               /\ ~( /\ Stored(peopleDefinitelyClashingMeetings, name, x, y)
                     /\ Stored(peopleNearlyClashingMeetings, name, x, y) )

\* The scan has visited, in both orders, two meetings of one person with
\* equal starts and different ends and two of which the earlier ends when
\* the later starts; the first two are in the definitely clashing set and
\* the other two in the nearly clashing set.
EqualStartsScannedBothWays ==
    /\ ScanDone
    /\ \E name \in People : \E day \in Range(Days) :
          \E x, y, z \in Range(DayList(name, day)) :
              /\ heap[x].start = heap[y].start
              /\ heap[x].end < heap[y].end
              /\ heap[x].end = heap[z].start
              /\ heap[x].start < heap[x].end
              /\ Stored(peopleDefinitelyClashingMeetings, name, x, y)
              /\ Stored(peopleNearlyClashingMeetings, name, x, z)

\* ------------------------------------------------------------------------
\* Runs of main over a calendar entry longer than the working day

\* Times before, at and after the ends of the working day.
LongDayTimeStrings ==
    { <<"08", "00">>, <<"09", "00">>, <<"10", "00">>,
      <<"18", "00">>, <<"19", "00">>, <<"20", "00">> }

\* Issues of one person on the Long day, with every window of
\* LongDayTimeStrings that starts before it ends as the declared one.
LongDayShapes ==
    { [BaseShape EXCEPT !.calendarUrl = "u4", !.timeLine = w] :
        w \in { v \in LongDayTimeStrings \X LongDayTimeStrings :
                  timeStringToPlainDateTime(0, v[1]) < timeStringToPlainDateTime(0, v[2]) } }

InitLongDay == InitMain(LongDayShapes, {<<>>}, {<<>>})

SpecLongDay == InitLongDay /\ [][Next]_vars

\* C21: every emitted gap starts at or after 09:00 and ends at or before
\* 18:00 of its day, whatever the declared times of the person's meetings.
GapsInsideWorkingDay ==
    \A name \in Range(personDayGaps.keys) : \A day \in Range(Days) :
        \A k \in 1..Len(GapList(name, day)) :
            /\ NineToSix(day).start <= GapList(name, day)[k].start
            /\ GapList(name, day)[k].end <= NineToSix(day).end

\* ------------------------------------------------------------------------
\* Runs of main in which alternatives are found

\* Issues of A and of B on the Plenary: an hour, the rest of the day, a
\* window of no duration and a window that ends before it starts; and an
\* issue of B on the Breakout that declares an earlier start, a moved one.
SuggestionShapes ==
    { [BaseShape EXCEPT !.assignees = <<"B">>, !.calendarUrl = "u2"] } \cup
    { [BaseShape EXCEPT !.assignees = <<name>>, !.timeLine = w] :
        name \in {"A", "B"},
        w \in { << <<"09", "00">>, <<"10", "00">> >>,
                << <<"10", "00">>, <<"18", "00">> >>,
                << <<"10", "00">>, <<"10", "00">> >>,
                << <<"10", "00">>, <<"09", "00">> >> } }

\* Without --combine and with --combine A B; without --alternatives and
\* with --alternatives B.
InitSuggestions ==
    InitMain(SuggestionShapes,
             {<<>>, SetEquivalents(<<>>, << <<"A", "B">> >>, 1)},
             {<<>>, <<"B">>})

SpecSuggestions == InitSuggestions /\ [][Next]_vars

\* ------------------------------------------------------------------------
\* The order of the gap computation and the alternatives

\* Every person's days have been walked: the gap lists are complete.
GapsComplete == pc = "scan" /\ scanned = Len(personDayMeetings.keys)

\* The alternatives of the records made so far.
AlternativesOf(records) == [t \in DOMAIN records |-> records[t].alternatives]

\* The step changes the alternatives of a record that exists before it.
AlternativesChange ==
    \E t \in DOMAIN heap : t \in DOMAIN heap' /\ heap'[t].alternatives # heap[t].alternatives

\* C22: the alternatives of every record are empty until the gap lists of
\* every person and day are complete; they change in one step only, taken
\* when the gap lists are complete, which leaves the gap lists as they are
\* and changes no record that is not on the schedule; after that step neither
\* the alternatives nor the gap lists change.
AlternativesAfterAllGaps ==
    /\ [](pc \in {"intake", "sort", "group", "scan"} =>
            \A t \in DOMAIN heap : heap[t].alternatives = <<>>)
    /\ [][ /\ AlternativesChange =>
                /\ GapsComplete
                /\ pc' = "duplicates"
                /\ personDayGaps' = personDayGaps
                /\ \A t \in DOMAIN heap :
                      ~Includes(meetings, t) => heap'[t] = heap[t]
           /\ pc \in {"duplicates", "done"} =>
                /\ heap' = heap
                /\ personDayGaps' = personDayGaps ]_vars

\* The run is over and a meeting on the schedule has an alternative.
AlternativeAttached ==
    /\ pc = "done"
    /\ \E t \in Range(meetings) : Len(heap[t].alternatives) > 0

\* ------------------------------------------------------------------------
\* Issues whose calendar url is not in the schedule document

\* The schedule document has no link for the calendar url of the k-th issue.
NotFound(k) == issues[k].body.calendarUrl \notin DOMAIN Schedule

\* C23: an issue whose calendar url has no link in the schedule document
\* does not end the run; its record has kind, calendarTitle, calendarDay,
\* calendarStart, calendarEnd, match and calendarRoom undefined, is not a
\* Meeting, is in invalidMeetings and in no other list, and has its tag, the
\* title and url of the issue, the day, start and end of the body, the names
\* of the assignees and the body, and the calendar url of the body.
UnknownCalendarUrlIsInvalid ==
    /\ (pc = "crashed" /\ NotFound(i)) => extractBodyThrows(issues[i].body)
    /\ \A k \in 1..Len(heap) :
          NotFound(k)
          => /\ heap[k].kind = Undefined
             /\ heap[k].calendarTitle = Undefined
             /\ heap[k].calendarDay = Undefined
             /\ heap[k].calendarStart = NoTime
             /\ heap[k].calendarEnd = NoTime
             /\ heap[k].match = Undefined
             /\ heap[k].calendarRoom = Undefined
             /\ ~isMeeting(heap[k])
             /\ Count(invalidMeetings, k) = 1
             /\ ~Includes(meetings, k)
             /\ ~Includes(movedMeetings, k)
             /\ ~Includes(unassignedMeetings, k)
             /\ heap[k].tag = k
             /\ heap[k].title = issues[k].title
             /\ heap[k].issueUrl = issues[k].url
             /\ heap[k].calendarUrl = issues[k].body.calendarUrl
             /\ heap[k].day = extractBodyInfo(issues[k].body).day
             /\ heap[k].start = extractBodyInfo(issues[k].body).start
             /\ heap[k].end = extractBodyInfo(issues[k].body).end
             /\ heap[k].names =
                   Dedupe(issues[k].assignees \o extractBodyInfo(issues[k].body).extraPeople)

\* The second of three issues has a calendar url without a link; its record
\* is the only invalid one and holds tag 2, Monday 09:00-10:00 and A.
UnknownCalendarUrlFiled ==
    /\ IntakeDone
    /\ Len(issues) = 3
    /\ NotFound(2)
    /\ issues[2].body.calendarUrl = "nowhere"
    /\ invalidMeetings = <<2>>
    /\ heap[2].tag = 2
    /\ heap[2].day = "monday"
    /\ heap[2].start = At(9, 0)
    /\ heap[2].end = At(10, 0)
    /\ heap[2].names = <<"A">>
    /\ heap[2].title = "Topic"

\* ------------------------------------------------------------------------
\* The order of the lists the gap walk reads

\* The list of references is in non-decreasing order of start, and
\* meetings of equal start are in the order of their tags.
ByStartThenTag(list) ==
    \A k, l \in 1..Len(list) :
        k < l => /\ heap[list[k]].start <= heap[list[l]].start
                 /\ heap[list[k]].start = heap[list[l]].start => list[k] <= list[l]

\* C24: from the grouping on, meetings is in non-decreasing order of start
\* with equal starts in tag order, and so is every person's list of every
\* day: the gap walk meets no meeting that starts before one it has visited.
DayListsSortedByStart ==
    pc \in {"group", "scan", "duplicates", "done"} =>
        /\ ByStartThenTag(meetings)
        /\ \A name \in People : \A day \in Range(Days) :
              ByStartThenTag(DayList(name, day))

\* Three issues taken in with starts in decreasing order, the last two
\* equal, are one person's Monday with tags 2 and 3 before tag 1.
LaterIssuesSortedFirst ==
    /\ ScanDone
    /\ Len(heap) = 3
    /\ heap[1].start > heap[2].start
    /\ heap[2].start = heap[3].start
    /\ heap[2].end # heap[3].end
    /\ \E name \in People : DayList(name, "monday") = <<2, 3, 1>>

\* ------------------------------------------------------------------------
\* What the analysis passes leave alone

\* C25: no step changes a field other than alternatives of a record that
\* exists, or removes a record; a step changes alternatives only of records
\* in meetings; and the steps of the scan, the attaching and the duplicate
\* pass leave meetings, the other intake lists and every person's day lists
\* in the order they have.
RecordsChangeInAlternativesOnly ==
    [][ /\ \A t \in DOMAIN heap :
              /\ t \in DOMAIN heap'
              /\ [heap'[t] EXCEPT !.alternatives = heap[t].alternatives] = heap[t]
              /\ heap'[t].alternatives # heap[t].alternatives => Includes(meetings, t)
        /\ pc \in {"scan", "duplicates"} =>
              /\ meetings' = meetings
              /\ movedMeetings' = movedMeetings
              /\ invalidMeetings' = invalidMeetings
              /\ unassignedMeetings' = unassignedMeetings
              /\ personDayMeetings' = personDayMeetings
              /\ dayMeetings' = dayMeetings
              /\ repoMeetings' = repoMeetings ]_vars

\* The run is over; a meeting on the schedule has an alternative, and a
\* moved meeting that lies in a gap of another person has none.
OnlyScheduledGotAlternatives ==
    /\ pc = "done"
    /\ \E t \in Range(meetings) : Len(heap[t].alternatives) > 0
    /\ \E t \in Range(movedMeetings) :
          /\ heap[t].alternatives = <<>>
          /\ alternatives(alts, personDayGaps, heap[t]) # <<>>

\* ------------------------------------------------------------------------
\* Runs of main over a calendar entry that lasts a whole day

\* Issues of one person on the All day of Tuesday, declared on the day
\* before, on the day and on the day after, at the first and the last minute
\* of the day and in between.
DayShapes ==
    { [BaseShape EXCEPT !.calendarUrl = "u5", !.dayLine = day, !.timeLine = w] :
        day \in {"Monday", "Tuesday", "Wednesday"},
        w \in { << <<"00", "00">>, <<"00", "00">> >>,
                << <<"00", "00">>, <<"23", "59">> >>,
                << <<"23", "59">>, <<"23", "59">> >>,
                << <<"23", "59">>, <<"00", "00">> >>,
                << <<"09", "00">>, <<"10", "00">> >> } }

InitDays == InitMain(DayShapes, {<<>>}, {<<>>})

SpecDays == InitDays /\ [][Next]_vars

\* C26: every meeting in meetings has its declared day equal to its
\* calendar day, and once the grouping is done it is in the list of that day
\* of each of its people and in the list of that day of dayMeetings.
DeclaredDayIsCalendarDay ==
    /\ \A t \in Range(meetings) :
          /\ heap[t].match \in {MatchEXACT, MatchSUBSET}
          /\ heap[t].day = heap[t].calendarDay
    /\ GroupDone =>
          \A t \in Range(meetings) :
              /\ \A name \in MappedNames(t) :
                    Includes(DayList(name, heap[t].calendarDay), t)
              /\ Includes(get(dayMeetings, heap[t].day), t)

\* An issue that declares the whole Tuesday is on the schedule and filed
\* under Tuesday in both groupings; one that declares the last minute of
\* Monday and one that declares the first minute of Wednesday are moved.
NeighbouringDaysMoved ==
    /\ GroupDone
    /\ \E t \in Range(meetings) :
          /\ heap[t].match = MatchEXACT
          /\ DayList("A", "tuesday") = <<t>>
          /\ get(dayMeetings, "tuesday") = <<t>>
    /\ \E t \in Range(movedMeetings) :
          /\ heap[t].day = "monday"
          /\ heap[t].start = heap[t].calendarStart - 1
    /\ \E t \in Range(movedMeetings) :
          /\ heap[t].day = "wednesday"
          /\ heap[t].end = heap[t].calendarEnd + 1

\* ------------------------------------------------------------------------
\* Who is suggested as an alternative

\* The alternatives are attached.
AlternativesDone == pc \in {"duplicates", "done"} /\ Len(issues) > 0

\* C27: once the alternatives are attached, the alternatives of a meeting
\* in meetings hold none of the mapped names of the meeting's raw names.
AttendeesNeverSuggested ==
    AlternativesDone =>
        \A t \in Range(meetings) : \A name \in MappedNames(t) :
            ~Includes(heap[t].alternatives, name)

\* The on-schedule meetings of a mapped name on a day.
MeetingsOf(name, day) ==
    {y \in Range(meetings) : name \in MappedNames(y) /\ heap[y].day = day}

\* C28: once the alternatives are attached, no person among the
\* alternatives of a meeting has an on-schedule meeting on the day of that
\* meeting whose declared window shares a positive duration with its window.
SuggestedPeopleAreFree ==
    AlternativesDone =>
        \A t \in Range(meetings) : \A k \in 1..Len(heap[t].alternatives) :
            \A y \in MeetingsOf(heap[t].alternatives[k], heap[t].day) :
                ~Overlapping(heap[y], heap[t])

\* A meeting that lasts some time has an alternative who has a meeting of
\* their own, one that lasts some time, on the same day.
BusyPersonSuggestedWhenFree ==
    /\ AlternativesDone
    /\ \E t \in Range(meetings) : \E k \in 1..Len(heap[t].alternatives) :
          /\ heap[t].start < heap[t].end
          /\ ~(heap[t].alternatives[k] \in MappedNames(t))
          /\ \E y \in MeetingsOf(heap[t].alternatives[k], heap[t].day) :
                heap[y].start < heap[y].end

\* C29: once the alternatives are attached, no name is twice among the
\* alternatives of a meeting.
NamesSuggestedOnce ==
    AlternativesDone =>
        \A t \in Range(meetings) : \A k, l \in 1..Len(heap[t].alternatives) :
            k # l => heap[t].alternatives[k] # heap[t].alternatives[l]

\* ------------------------------------------------------------------------
\* The pairs of the clashing sets

\* The pairs of the person's set of the map are pairs of two different
\* meetings of meetings that both have the person among their mapped names
\* and have one declared day.
PairsOfOwnMeetings(map, name) ==
    \A k \in 1..Len(PairsOf(map, name)) :
        \E x \in {PairsOf(map, name)[k][1]} : \E y \in {PairsOf(map, name)[k][2]} :
            /\ x # y
            /\ heap[x].tag # heap[y].tag
            /\ Includes(meetings, x) /\ Includes(meetings, y)
            /\ name \in MappedNames(x) /\ name \in MappedNames(y)
            /\ heap[x].day = heap[y].day

\* C30: every pair of a person's definitely or nearly clashing set is a pair
\* of two different meetings on the schedule, with different tags, that both
\* have the person among their names after the look-up and have the same
\* declared day; no meeting is paired with itself.
PairsAreOfTwoMeetingsOfThePerson ==
    /\ \A name \in Range(peopleDefinitelyClashingMeetings.keys) :
          PairsOfOwnMeetings(peopleDefinitelyClashingMeetings, name)
    /\ \A name \in Range(peopleNearlyClashingMeetings.keys) :
          PairsOfOwnMeetings(peopleNearlyClashingMeetings, name)

\* With --combine A B a meeting of both A and B is twice in B's Monday, and
\* it is in a pair of B's definitely clashing set with another meeting.
MeetingTwiceInDayListPairedOnce ==
    /\ ScanDone
    /\ \E t \in Range(meetings) :
          /\ heap[t].names = <<"A", "B">>
          /\ Count(DayList("B", "monday"), t) = 2
          /\ \E y \in Range(meetings) :
                /\ y # t
                /\ Stored(peopleDefinitelyClashingMeetings, "B", t, y)
                /\ Len(PairsOf(peopleDefinitelyClashingMeetings, "B")) = 1
====
